---- MODULE Spec2Model ----
(***************************************************************************)
(* Model of the JOBPM ingestion orchestrator (run_scraper.py), the         *)
(* page-text extractor (scrapers/llm_career.py) and the job/company store  *)
(* (api/models.py).                                                        *)
(*                                                                         *)
(* Time is counted in whole days.  One invocation of main() happens at one *)
(* value of the clock; the clock advances between invocations.             *)
(***************************************************************************)
EXTENDS Integers, Sequences, FiniteSets, TLC

VARIABLES
    clock,          \* datetime.now(timezone.utc), in days
    runs,           \* number of invocations of main() started so far
    phase,          \* position of main(): idle, phase0a, phase0b, phase1, gather, phase2
    company,        \* table companies: company id -> row
    jobs,           \* table jobs: set of rows
    worklist,       \* main(): `companies`, the result of the Phase 1 query
    task,           \* per company: local state of its scrape_company coroutine
    permits,        \* asyncio.Semaphore(CONCURRENCY): permits currently held
    status_counts,  \* main(): Counter of returned statuses
    total_jobs,     \* main(): total_jobs
    clears,         \* history: per company, the days its career_url was cleared
    ats_calls,      \* history: companies for which try_ats_fallback was invoked
    websites,       \* main(): keys of `websites`, the result of discover_websites
    discovered,     \* main(): keys of `discovered`, the result of discover_all
    discover_args,  \* history: the website_url discover_url was called with
    listed,         \* history: per company, the jobs of its page as last extracted,
                    \* while every scrape since found the page unchanged, on schedule
    call            \* one invocation of discover_url, _validate_url or a source
                    \* adapter, studied on its own: arguments, position, result

vars == <<clock, runs, phase, company, jobs, worklist, task, permits,
          status_counts, total_jobs, clears, ats_calls,
          websites, discovered, discover_args, listed, call>>

(* The state of the orchestrator, without the invocation studied on its own *)
main_vars == <<clock, runs, phase, company, jobs, worklist, task, permits,
               status_counts, total_jobs, clears, ats_calls,
               websites, discovered, discover_args, listed>>

----------------------------------------------------------------------------
(* Bounds of the model *)

MaxRuns == 3            \* invocations of main() explored
MaxDay == 42            \* the clock stops advancing here
FairRuns == 1           \* invocations explored under fairness
StatusMaxDay == 68      \* the clock of the single-company history stops here

(* Days that may pass between two invocations: the boundary values of the  *)
(* 5-day scrape cutoff and of the 30-day rediscovery cooldown.             *)
AdvanceDays == {5, 6, 30, 31}

(* Program constants.  MAX_PER_RUN and CONCURRENCY are scaled down (200    *)
(* and 5 in the source) so that the window and the gate bind with the      *)
(* four companies of the model.                                            *)
CONCURRENCY == 1
MAX_PER_RUN == 2
DISCOVERY_BATCH == 250
WEBSITE_BATCH == 500
DISCOVERY_COOLDOWN_DAYS == 30
SCRAPE_CUTOFF_DAYS == 5
STALE_DAYS == 7
MAX_PAGES == 20
SPA_MIN_CHARS == 100
SPA_SIGNAL_CHARS == 300

NULL == "NULL"          \* SQL NULL / Python None for string columns
NoTime == 0 - 1         \* SQL NULL for timestamp columns

Companies == {"c1", "c2", "c3", "c4"}
Sources == {"auto", "yaml", "manual"}
Statuses == {"OK", "EMPTY", "SPA_DETECTED", "HTTP_ERROR"}
ReturnStatuses == {"OK", "UNCHANGED", "SPA_DETECTED", "HTTP_ERROR", "ERROR"}

NotCalled == "-"                \* discover_url was not called for the company
CareerUrl == "A"                \* the career page of a company
Urls == {"A", "B"}              \* pages the classifier may point to
HomeUrl == "W"                  \* a validated homepage URL

----------------------------------------------------------------------------
(* Pages, fingerprints and classifier answers *)

(* A response body: the length of the stripped markdown html2text makes of *)
(* it and whether the raw html contains one of _SPA_SIGNALS.               *)
Bodies ==
    { [id |-> "b1", md_len |-> 200, spa_signal |-> FALSE],
      [id |-> "b2", md_len |-> 40,  spa_signal |-> FALSE],
      [id |-> "b3", md_len |-> 200, spa_signal |-> TRUE] }

NoBody == [id |-> "none", md_len |-> 0, spa_signal |-> FALSE]

(* hashlib.sha256(resp.content).hexdigest() *)
sha256(body) ==
    CASE body.id = "b1" -> "h1"
      [] body.id = "b2" -> "h2"
      [] body.id = "b3" -> "h3"
      [] OTHER -> "h0"

(* What http.get answers: a status code with a body, or no response at all *)
(* (code 0: timeout, connection error).                                    *)
FetchResponses ==
    { [code |-> 200, body |-> b] : b \in Bodies }
    \cup { [code |-> k, body |-> NoBody] : k \in {404, 410, 500} }
    \cup { [code |-> 0, body |-> NoBody] }

(* The host of c3's career page does not answer in the runs explored; the  *)
(* other career pages may answer anything.                                 *)
Unreachable == {"c3"}

FirstPageResponses(c) ==
    IF c \in Unreachable
    THEN { r \in FetchResponses : r.code = 0 }
    ELSE FetchResponses

(* Job titles, each with the keywords of normalizer.py it contains.        *)
TitleKeywords(title) ==
    CASE title = "Product Manager" -> {"product manager"}
      [] title = "Product Marketing Manager" -> {"product marketing"}
      [] title = "Product Manager, Product Marketing" ->
             {"product manager", "product marketing"}
      [] OTHER -> {}

PM_TITLE_KEYWORDS ==
    { "product manager", "product management", "group product", "staff pm",
      "senior pm", "principal pm", "product lead", "vp product",
      "vp of product", "head of product", "chief product", "cpo",
      "product owner", "technical product", "growth pm", "platform pm",
      "ai pm" }

PM_EXCLUDE_KEYWORDS ==
    { "product marketing", "product analyst", "data analyst",
      "software engineer", "engineering manager", "designer",
      "product operations analyst" }

(* Mutant: an include keyword is enough, the exclude list is not looked at. *)
is_pm_role_include_only(title) ==
    TitleKeywords(title) \cap PM_TITLE_KEYWORDS # {}

is_pm_role(title) ==
    IF TitleKeywords(title) \cap PM_EXCLUDE_KEYWORDS # {}
    THEN FALSE
    ELSE TitleKeywords(title) \cap PM_TITLE_KEYWORDS # {}

(* Item lists the classifier may return for a page; the empty list is    *)
(* what an answer that is not JSON gives.                                  *)
ItemLists ==
    { << [title |-> "Product Manager", url |-> "j1"],
         [title |-> "Product Marketing Manager", url |-> "j2"],
         [title |-> "Product Manager, Product Marketing", url |-> "j2"] >>,
      << [title |-> "Product Manager", url |-> "j2"],
         [title |-> "Product Manager", url |-> ""],
         [title |-> "", url |-> "j1"] >> }

(* The classifier call: it raises, answers text that is not JSON, or       *)
(* answers a jobs array and a next_page_url.                               *)
LlmResponses ==
    { [kind |-> "raise", items |-> << >>, next |-> NULL],
      [kind |-> "bad_json", items |-> << >>, next |-> NULL] }
    \cup { [kind |-> "ok", items |-> it, next |-> n] :
             it \in ItemLists, n \in Urls \cup {NULL} }

(* hashlib.sha256(url.encode()).hexdigest()[:32] *)
SourceIdOf(url) ==
    CASE url = "j1" -> "sid1"
      [] url = "j2" -> "sid2"
      [] OTHER -> "sid0"

RECURSIVE _items_to_jobs(_)
_items_to_jobs(items) ==
    IF items = << >> THEN << >>
    ELSE LET item == Head(items)
             rest == _items_to_jobs(Tail(items))
         IN IF item.title = "" \/ item.url = "" THEN rest
            ELSE IF ~is_pm_role(item.title) THEN rest
            ELSE << [source_id |-> SourceIdOf(item.url), source |-> "custom",
                     title |-> item.title, url |-> item.url] >> \o rest

(* _extract_page: (raw_items, next_page_url) of a classifier answer that   *)
(* did not raise.                                                          *)
_extract_page(llm) ==
    IF llm.kind = "bad_json"
    THEN [items |-> << >>, next_url |-> NULL]
    ELSE [items |-> llm.items, next_url |-> llm.next]

_detect_spa(body) ==
    \/ body.md_len < SPA_MIN_CHARS
    \/ body.spa_signal /\ body.md_len < SPA_SIGNAL_CHARS

(* Mutant: the change detection is skipped. *)
Unchanged_never(page_hash, new_hash) == FALSE

(* The change-detection test of fetch_custom. *)
Unchanged(page_hash, new_hash) ==
    page_hash # NULL /\ new_hash = page_hash

(* Mutant: the loop guard without the page cap. *)
FollowNext_no_cap(next_url, page_num, visited) ==
    next_url # NULL /\ next_url \notin visited

(* Mutant: the loop guard without the visited-set test. *)
FollowNext_no_visited(next_url, page_num, visited) ==
    next_url # NULL /\ page_num < MAX_PAGES

(* The guard of the pagination loop of fetch_custom. *)
FollowNext(next_url, page_num, visited) ==
    next_url # NULL /\ page_num < MAX_PAGES /\ next_url \notin visited

----------------------------------------------------------------------------
(* The job store and reconciliation (run_scraper.upsert_jobs) *)

(* Mutant: the table has no unique constraint, nothing ever conflicts. *)
uq_job_source_absent(rows, job) == {}

(* The rows that conflict with `job` on constraint uq_job_source. *)
uq_job_source(rows, job) ==
    { r \in rows : r.source = job.source /\ r.source_id = job.source_id }

(* Mutant: the update refreshes last_seen but leaves the active flag. *)
on_conflict_set_keeps_flag(r, now) ==
    [r EXCEPT !.last_seen = now, !.search_vector = TRUE]

(* Mutant: the update also overwrites first_seen, as the insert does. *)
on_conflict_set_first_seen(r, now) ==
    [r EXCEPT !.first_seen = now, !.last_seen = now, !.is_active = TRUE,
              !.search_vector = TRUE]

(* The set_ of on_conflict_do_update. *)
on_conflict_set(r, now) ==
    [r EXCEPT !.last_seen = now, !.is_active = TRUE, !.search_vector = TRUE]

(* The values of pg_insert(Job); the id is the column default uuid4. *)
insert_values(rows, job, company_id, now) ==
    [id |-> Cardinality(rows) + 1, company_id |-> company_id,
     source |-> job.source, source_id |-> job.source_id,
     title |-> job.title, url |-> job.url,
     first_seen |-> now, last_seen |-> now,
     is_active |-> TRUE, search_vector |-> TRUE]

(* One statement: INSERT ... ON CONFLICT ON CONSTRAINT uq_job_source DO UPDATE *)
execute_upsert(rows, job, company_id, now) ==
    LET conflict == uq_job_source(rows, job)
    IN IF conflict = {}
       THEN rows \cup { insert_values(rows, job, company_id, now) }
       ELSE { IF r \in conflict THEN on_conflict_set(r, now) ELSE r : r \in rows }

(* upsert_jobs: the rows after the loop and the commit. *)
RECURSIVE upsert_jobs(_, _, _, _)
upsert_jobs(rows, joblist, company_id, now) ==
    IF joblist = << >> THEN rows
    ELSE LET job == Head(joblist)
         IN IF job.url = ""
            THEN upsert_jobs(rows, Tail(joblist), company_id, now)
            ELSE upsert_jobs(execute_upsert(rows, job, company_id, now),
                             Tail(joblist), company_id, now)

(* upsert_jobs: the count it returns. *)
RECURSIVE upsert_count(_)
upsert_count(joblist) ==
    IF joblist = << >> THEN 0
    ELSE (IF Head(joblist).url = "" THEN 0 ELSE 1) + upsert_count(Tail(joblist))

(* History: the rows an upsert of `joblist` finds inactive. *)
inactive_conflicts(rows, joblist) ==
    { r \in rows : /\ ~r.is_active
                   /\ \E i \in DOMAIN joblist :
                         joblist[i].url # "" /\ r \in uq_job_source(rows, joblist[i]) }

(* Mutant: stale rows are deleted instead of being marked. *)
mark_inactive_jobs_delete(rows, now) ==
    { r \in rows : ~(r.last_seen < now - STALE_DAYS) }

(* mark_inactive_jobs *)
mark_inactive_jobs(rows, now) ==
    { IF r.last_seen < now - STALE_DAYS /\ r.is_active
      THEN [r EXCEPT !.is_active = FALSE] ELSE r : r \in rows }

(* refresh_search_vectors *)
refresh_search_vectors(rows) ==
    { IF r.search_vector = FALSE THEN [r EXCEPT !.search_vector = TRUE] ELSE r :
      r \in rows }

----------------------------------------------------------------------------
(* scrape_company: the bookkeeping of a company row *)

(* Mutant: the UNCHANGED branch is missing. *)
track_status_no_unchanged(row, status, count) ==
    IF status = "SPA_DETECTED" THEN [row EXCEPT !.scrape_status = "SPA_DETECTED"]
    ELSE IF count > 0 THEN [row EXCEPT !.scrape_status = "OK"]
    ELSE [row EXCEPT !.scrape_status = "EMPTY"]

(* Status tracking after fetch_custom returned (status, count). *)
track_status(row, status, count) ==
    IF status = "SPA_DETECTED" THEN [row EXCEPT !.scrape_status = "SPA_DETECTED"]
    ELSE IF status = "UNCHANGED" THEN row
    ELSE IF count > 0 THEN [row EXCEPT !.scrape_status = "OK"]
    ELSE [row EXCEPT !.scrape_status = "EMPTY"]

(* The try block after the upsert: status, last_scraped, page_hash. *)
on_returned(row, status, count, new_hash, now) ==
    [track_status(row, status, count) EXCEPT
        !.last_scraped = now, !.page_hash = new_hash]

(* Mutant: the provenance of the URL is not looked at. *)
may_auto_reset_any(row) == TRUE

(* A URL may be reset only when the system discovered it itself. *)
may_auto_reset(row) == row.career_url_source = "auto"

(* Mutant: the cooldown is not looked at. *)
can_rediscover_always(row, now) == TRUE

(* The rediscovery cooldown has elapsed. *)
can_rediscover(row, now) ==
    \/ row.last_discovery_attempt = NoTime
    \/ row.last_discovery_attempt < now - DISCOVERY_COOLDOWN_DAYS

(* except httpx.HTTPStatusError *)
on_http_error(row, code, now) ==
    IF code \in {404, 410}
    THEN IF may_auto_reset(row) /\ can_rediscover(row, now)
         THEN [row EXCEPT !.scrape_status = "HTTP_ERROR", !.career_url = NULL,
                          !.page_hash = NULL, !.last_discovery_attempt = now,
                          !.last_scraped = now]
         ELSE [row EXCEPT !.scrape_status = "HTTP_ERROR", !.last_scraped = now]
    ELSE [row EXCEPT !.scrape_status = "HTTP_ERROR", !.last_scraped = now]

(* Mutant: any other exception counts as a scrape that found nothing. *)
on_other_error_marks_empty(row, now) == [row EXCEPT !.scrape_status = "EMPTY"]

(* except Exception: the row is left as it is. *)
on_other_error(row, now) == row

----------------------------------------------------------------------------
(* main: the Phase 1 query *)

is_due(row, now) ==
    /\ row.is_enabled
    /\ row.career_url # NULL
    /\ \/ row.last_scraped = NoTime
       \/ row.last_scraped < now - SCRAPE_CUTOFF_DAYS

(* ORDER BY last_scraped ASC NULLS FIRST: a may precede b. *)
nulls_first_asc(a, b) ==
    \/ a.last_scraped = NoTime
    \/ b.last_scraped # NoTime /\ a.last_scraped <= b.last_scraped

Min(a, b) == IF a < b THEN a ELSE b

Range(s) == { s[i] : i \in DOMAIN s }

(* The result lists the query may return: the first MAX_PER_RUN rows of    *)
(* the due companies in some order the ORDER BY allows.                    *)
due_query(table, now) ==
    LET due == { c \in Companies : is_due(table[c], now) }
        n == Min(Cardinality(due), MAX_PER_RUN)
    IN { s \in [1..n -> due] :
           /\ \A i, j \in 1..n : i < j =>
                 s[i] # s[j] /\ nulls_first_asc(table[s[i]], table[s[j]])
           /\ \A c \in due \ Range(s) : \A i \in 1..n :
                 nulls_first_asc(table[s[i]], table[c]) }

----------------------------------------------------------------------------
(* State of one scrape_company coroutine *)

NoTask ==
    [pc |-> "none", page_hash |-> NULL, new_hash |-> NULL, cur_url |-> NULL,
     visited |-> {}, page_num |-> 0, next_url |-> NULL, all_jobs |-> << >>,
     fetched |-> << >>, llm_calls |-> 0, outcome |-> NULL, status |-> NULL,
     code |-> 0, ret |-> NULL, count |-> 0, revived |-> {}, raw_items |-> {},
     llm_failed |-> FALSE]

(* The tables after seeding: c1 has no URL yet (provenance auto), c2 has a  *)
(* manually entered career URL, c3 and c4 have one from the curated list,  *)
(* c4 is disabled.  No company has been scraped and the job table is empty.*)
Seeded ==
    /\ clock = 0
    /\ runs = 0
    /\ phase = "idle"
    /\ company =
         [c \in Companies |->
            [website_url |-> IF c = "c1" THEN NULL ELSE HomeUrl,
             career_url |-> IF c = "c1" THEN NULL ELSE CareerUrl,
             career_url_source |->
                 IF c = "c1" THEN "auto" ELSE IF c = "c2" THEN "manual" ELSE "yaml",
             is_enabled |-> c # "c4",
             last_scraped |-> NoTime,
             page_hash |-> NULL,
             scrape_interval_days |->
                 IF c = "c2" THEN 10 ELSE IF c = "c3" THEN 3 ELSE 5,
             last_discovery_attempt |-> NoTime,
             scrape_status |-> NULL]]
    /\ jobs = {}
    /\ worklist = << >>
    /\ task = [c \in Companies |-> NoTask]
    /\ permits = 0
    /\ status_counts = [s \in ReturnStatuses |-> 0]
    /\ total_jobs = 0
    /\ clears = [c \in Companies |-> << >>]
    /\ ats_calls = {}
    /\ websites = {}
    /\ discovered = {}
    /\ discover_args = [c \in Companies |-> NotCalled]
    /\ listed = [c \in Companies |-> {}]

(* No function is being studied on its own *)
NoCall == [fn |-> "none", pc |-> "none"]

Init == Seeded /\ call = NoCall

----------------------------------------------------------------------------
(* main() *)

(* An invocation starts; the scheduler decides how many days have passed   *)
(* since the previous one (the first invocation is day 0).                 *)
StartRun ==
    /\ phase = "idle"
    /\ runs < MaxRuns
    /\ \E d \in (IF runs = 0 THEN {0} ELSE AdvanceDays) :
         /\ clock + d <= MaxDay
         /\ clock' = clock + d
    /\ runs' = runs + 1
    /\ phase' = "phase0a"
    /\ UNCHANGED <<company, jobs, worklist, task, permits, status_counts,
                   total_jobs, clears, ats_calls, call, listed,
                   websites, discovered, discover_args>>

(* History: at the end of an invocation the jobs known to be on a page    *)
(* are forgotten for every company that was due and was not scraped.       *)
scraped_on_schedule(known, table, now) ==
    [c \in Companies |->
       IF \/ table[c].last_scraped = NoTime
          \/ table[c].last_scraped < now - SCRAPE_CUTOFF_DAYS
       THEN {} ELSE known[c]]

(* Phase 0a: discover_websites returns a validated homepage for some of    *)
(* the first WEBSITE_BATCH enabled companies that have none.  Every error  *)
(* of a classifier batch or of a probe stays inside discover_websites.     *)
Phase0a ==
    /\ phase = "phase0a"
    /\ LET missing_website ==
             { c \in Companies : company[c].is_enabled
                                 /\ company[c].website_url = NULL }
       IN \E to_discover \in SUBSET missing_website :
            /\ Cardinality(to_discover) = Min(Cardinality(missing_website), WEBSITE_BATCH)
            /\ \E found \in SUBSET to_discover :
                 /\ websites' = found
                 /\ company' = [c \in Companies |->
                                  IF c \in found
                                  THEN [company[c] EXCEPT !.website_url = HomeUrl]
                                  ELSE company[c]]
    /\ phase' = "phase0b"
    /\ UNCHANGED <<clock, runs, jobs, worklist, task, permits, status_counts,
                   total_jobs, clears, ats_calls, call, listed, discovered, discover_args>>

(* The hints file discover_all reads: absent, well-formed, or one that     *)
(* yaml.safe_load or the loop over its entries rejects.                    *)
HintsFiles == {"absent", "ok", "malformed"}

(* _load_yaml_hints raises on a file it cannot load. *)
_load_yaml_hints_raises(file) == file = "malformed"

(* Mutant: discover_url is called without the row's website_url. *)
website_url_arg_none(row) == NULL

(* The website_url argument _discover_one passes to discover_url. *)
website_url_arg(row) == row.website_url

(* Phase 0b: discover_all returns a validated career URL for some of the   *)
(* first DISCOVERY_BATCH enabled companies that have none.  The hints are  *)
(* loaded outside every handler: when that raises, the exception leaves    *)
(* discover_all and main(), and the invocation ends there.                 *)
Phase0b ==
    /\ phase = "phase0b"
    /\ LET missing_url ==
             { c \in Companies : company[c].is_enabled
                                 /\ company[c].career_url = NULL }
       IN \E to_discover \in SUBSET missing_url, file \in HintsFiles :
            /\ Cardinality(to_discover) = Min(Cardinality(missing_url), DISCOVERY_BATCH)
            /\ \/ /\ to_discover # {}
                  /\ _load_yaml_hints_raises(file)
                  /\ phase' = "idle"
                  /\ websites' = {}
                  /\ listed' = scraped_on_schedule(listed, company, clock)
                  /\ UNCHANGED <<company, discovered, discover_args>>
               \/ /\ to_discover = {} \/ ~_load_yaml_hints_raises(file)
                  /\ \E found \in SUBSET to_discover :
                       /\ discovered' = found
                       /\ company' = [c \in Companies |->
                                        IF c \in found
                                        THEN [company[c] EXCEPT !.career_url = CareerUrl]
                                        ELSE company[c]]
                  /\ discover_args' =
                       [c \in Companies |->
                          IF c \in to_discover
                          THEN website_url_arg(company[c]) ELSE NotCalled]
                  /\ phase' = "phase1"
                  /\ UNCHANGED <<websites, listed>>
    /\ UNCHANGED <<clock, runs, jobs, worklist, task, permits, status_counts,
                   total_jobs, clears, ats_calls, call>>

(* Phase 1: the query, then one scrape_company coroutine per company. *)
Phase1Select ==
    /\ phase = "phase1"
    /\ \E companies \in due_query(company, clock) :
         /\ worklist' = companies
         /\ task' = [c \in Companies |->
                       IF c \in Range(companies)
                       THEN [NoTask EXCEPT !.pc = "waiting"] ELSE NoTask]
         /\ phase' = IF companies = << >> THEN "phase2" ELSE "gather"
    /\ UNCHANGED <<clock, runs, company, jobs, permits, status_counts,
                   total_jobs, clears, ats_calls, call, listed,
                   websites, discovered, discover_args>>

----------------------------------------------------------------------------
(* scrape_company(session, company, semaphore), one coroutine per company *)

(* Mutant: the semaphore never makes anybody wait. *)
locked_never(held) == FALSE

(* asyncio.Semaphore(CONCURRENCY).locked(): no permit is left *)
locked(held) == held >= CONCURRENCY

(* async with semaphore: waiters are served in the order gather started   *)
(* them.  fetch_custom is then called with the row's page_hash.           *)
TaskEnter(c) ==
    /\ phase = "gather"
    /\ task[c].pc = "waiting"
    /\ ~locked(permits)
    /\ \A i, j \in DOMAIN worklist :
         (worklist[j] = c /\ i < j) => task[worklist[i]].pc # "waiting"
    /\ permits' = permits + 1
    /\ task' = [task EXCEPT ![c] =
                  [@ EXCEPT !.pc = "fetch_first",
                            !.page_hash = company[c].page_hash,
                            !.cur_url = company[c].career_url]]
    /\ UNCHANGED <<clock, runs, phase, company, jobs, worklist, status_counts,
                   total_jobs, clears, ats_calls, call, listed,
                   websites, discovered, discover_args>>

(* fetch_custom: fetch the first page, change detection, SPA detection. *)
FetchFirst(c) ==
    /\ task[c].pc = "fetch_first"
    /\ \E resp \in FirstPageResponses(c) :
         LET t == [task[c] EXCEPT !.fetched = Append(@, task[c].cur_url)]
             new_hash == sha256(resp.body)
         IN task' = [task EXCEPT ![c] =
              IF resp.code = 0
              THEN [t EXCEPT !.pc = "handle", !.outcome = "error"]
              ELSE IF resp.code >= 400
              THEN [t EXCEPT !.pc = "handle", !.outcome = "http_error",
                             !.code = resp.code]
              ELSE IF Unchanged(t.page_hash, new_hash)
              THEN [t EXCEPT !.pc = "handle", !.outcome = "returned",
                             !.new_hash = new_hash, !.status = "UNCHANGED"]
              ELSE IF _detect_spa(resp.body)
              THEN [t EXCEPT !.pc = "handle", !.outcome = "returned",
                             !.new_hash = new_hash, !.status = "SPA_DETECTED"]
              ELSE [t EXCEPT !.pc = "extract", !.new_hash = new_hash,
                             !.visited = {t.cur_url}, !.page_num = 1]]
    /\ UNCHANGED <<clock, runs, phase, company, jobs, worklist, permits,
                   status_counts, total_jobs, clears, ats_calls, call, listed,
                   websites, discovered, discover_args>>

(* fetch_custom: one _extract_page call on the current page, then the     *)
(* guard of the pagination loop.                                          *)
ExtractPage(c) ==
    /\ task[c].pc = "extract"
    /\ \E llm \in LlmResponses :
         LET t == [task[c] EXCEPT !.llm_calls = @ + 1,
                                  !.raw_items = @ \cup Range(_extract_page(llm).items),
                                  !.llm_failed = /\ task[c].page_num = 1
                                                 /\ llm.kind \in {"raise", "bad_json"}]
         IN task' = [task EXCEPT ![c] =
              IF llm.kind = "raise"
              THEN [t EXCEPT !.pc = "handle", !.outcome = "error"]
              ELSE LET page == _extract_page(llm)
                       all_jobs == t.all_jobs \o _items_to_jobs(page.items)
                   IN IF FollowNext(page.next_url, t.page_num, t.visited)
                      THEN [t EXCEPT !.pc = "fetch_next",
                                     !.all_jobs = all_jobs,
                                     !.next_url = page.next_url,
                                     !.page_num = @ + 1,
                                     !.visited = @ \cup {page.next_url}]
                      ELSE [t EXCEPT !.pc = "handle", !.outcome = "returned",
                                     !.all_jobs = all_jobs,
                                     !.next_url = page.next_url,
                                     !.status = "OK"]]
    /\ UNCHANGED <<clock, runs, phase, company, jobs, worklist, permits,
                   status_counts, total_jobs, clears, ats_calls, call, listed,
                   websites, discovered, discover_args>>

(* fetch_custom: fetch a pagination page.  Only httpx.HTTPStatusError is  *)
(* caught in the loop; a page with too little text ends the loop.         *)
FetchNext(c) ==
    /\ task[c].pc = "fetch_next"
    /\ \E resp \in FetchResponses :
         LET t == [task[c] EXCEPT !.fetched = Append(@, task[c].next_url),
                                  !.cur_url = task[c].next_url]
         IN task' = [task EXCEPT ![c] =
              IF resp.code = 0
              THEN [t EXCEPT !.pc = "handle", !.outcome = "error"]
              ELSE IF resp.code >= 400
              THEN [t EXCEPT !.pc = "handle", !.outcome = "returned",
                             !.status = "OK"]
              ELSE IF resp.body.md_len < SPA_MIN_CHARS
              THEN [t EXCEPT !.pc = "handle", !.outcome = "returned",
                             !.status = "OK"]
              ELSE [t EXCEPT !.pc = "extract"]]
    /\ UNCHANGED <<clock, runs, phase, company, jobs, worklist, permits,
                   status_counts, total_jobs, clears, ats_calls, call, listed,
                   websites, discovered, discover_args>>

(* History: the jobs known to be on the company's page.  A full           *)
(* extraction of a single page sets them; a scrape that finds the page     *)
(* byte-for-byte unchanged, no later than the first day the company is due *)
(* again, keeps them; anything else forgets them.                          *)
still_listed(known, t, row, now) ==
    IF t.outcome = "returned" /\ t.status = "OK" /\ Len(t.fetched) = 1
    THEN { t.all_jobs[i].source_id : i \in DOMAIN t.all_jobs }
    ELSE IF /\ t.outcome = "returned" /\ t.status = "UNCHANGED"
            /\ now - row.last_scraped <= SCRAPE_CUTOFF_DAYS + 1
    THEN known
    ELSE {}

(* scrape_company after fetch_custom returned or raised: the upsert, the  *)
(* status tracking and the commit, or one of the except blocks.           *)
Handle(c) ==
    /\ task[c].pc = "handle"
    /\ LET t == task[c]
           count == upsert_count(t.all_jobs)
           done == [NoTask EXCEPT !.pc = "sleep", !.outcome = t.outcome,
                                  !.status = t.status, !.code = t.code,
                                  !.raw_items = t.raw_items]
       IN \/ /\ t.outcome = "returned"
             /\ jobs' = upsert_jobs(jobs, t.all_jobs, c, clock)
             /\ company' = [company EXCEPT ![c] =
                   on_returned(@, t.status, count, t.new_hash, clock)]
             /\ task' = [task EXCEPT ![c] =
                   [done EXCEPT !.ret = t.status, !.count = count,
                                !.revived = { r.id : r \in
                                    inactive_conflicts(jobs, t.all_jobs) }]]
          \/ /\ t.outcome = "http_error"
             /\ company' = [company EXCEPT ![c] = on_http_error(@, t.code, clock)]
             /\ task' = [task EXCEPT ![c] = [done EXCEPT !.ret = "HTTP_ERROR"]]
             /\ jobs' = jobs
          \/ /\ t.outcome = "error"
             /\ company' = [company EXCEPT ![c] = on_other_error(@, clock)]
             /\ task' = [task EXCEPT ![c] = [done EXCEPT !.ret = "ERROR"]]
             /\ jobs' = jobs
    /\ listed' = [listed EXCEPT ![c] = still_listed(@, task[c], company[c], clock)]
    /\ clears' = [clears EXCEPT ![c] =
          IF company[c].career_url # NULL /\ company'[c].career_url = NULL
          THEN Append(@, clock) ELSE @]
    /\ UNCHANGED <<clock, runs, phase, worklist, permits, status_counts,
                   total_jobs, ats_calls, call,
                   websites, discovered, discover_args>>

(* finally: await asyncio.sleep(DELAY_BETWEEN); then the semaphore is     *)
(* released and the coroutine returns (count, status).                    *)
TaskExit(c) ==
    /\ task[c].pc = "sleep"
    /\ task' = [task EXCEPT ![c] = [@ EXCEPT !.pc = "done"]]
    /\ permits' = permits - 1
    /\ UNCHANGED <<clock, runs, phase, company, jobs, worklist, status_counts,
                   total_jobs, clears, ats_calls, call, listed,
                   websites, discovered, discover_args>>

RECURSIVE SumCounts(_)
SumCounts(cs) ==
    IF cs = {} THEN 0
    ELSE LET c == CHOOSE x \in cs : TRUE
         IN task[c].count + SumCounts(cs \ {c})

(* Mutant: results that are errors are left out of the summary. *)
tally_without_errors(companies, s) ==
    IF s = "ERROR" THEN 0
    ELSE Cardinality({ c \in Range(companies) : task[c].ret = s })

(* The loop over the results of gather: status_counts[status] += 1. *)
tally(companies, s) ==
    Cardinality({ c \in Range(companies) : task[c].ret = s })

(* main: asyncio.gather has every result; the summary is counted. *)
Gather ==
    /\ phase = "gather"
    /\ \A c \in Range(worklist) : task[c].pc = "done"
    /\ status_counts' = [s \in ReturnStatuses |-> tally(worklist, s)]
    /\ total_jobs' = SumCounts(Range(worklist))
    /\ phase' = "phase2"
    /\ UNCHANGED <<clock, runs, company, jobs, worklist, task, permits,
                   clears, ats_calls, call, listed, websites, discovered, discover_args>>

(* Phase 2: mark_inactive_jobs, then refresh_search_vectors; main then     *)
(* reports and returns, and its locals are gone.                           *)
Phase2 ==
    /\ phase = "phase2"
    /\ jobs' = refresh_search_vectors(mark_inactive_jobs(jobs, clock))
    /\ phase' = "idle"
    /\ worklist' = << >>
    /\ task' = [c \in Companies |-> NoTask]
    /\ status_counts' = [s \in ReturnStatuses |-> 0]
    /\ total_jobs' = 0
    /\ listed' = scraped_on_schedule(listed, company, clock)
    /\ websites' = {}
    /\ discovered' = {}
    /\ discover_args' = [c \in Companies |-> NotCalled]
    /\ UNCHANGED <<clock, runs, company, permits, clears, ats_calls, call>>

Next ==
    \/ StartRun
    \/ Phase0a
    \/ Phase0b
    \/ Phase1Select
    \/ \E c \in Companies : TaskEnter(c)
    \/ \E c \in Companies : FetchFirst(c)
    \/ \E c \in Companies : ExtractPage(c)
    \/ \E c \in Companies : FetchNext(c)
    \/ \E c \in Companies : Handle(c)
    \/ \E c \in Companies : TaskExit(c)
    \/ Gather
    \/ Phase2

Spec == Init /\ [][Next]_vars

----------------------------------------------------------------------------
(* Properties *)

(* The coroutine of c has finished its try/except and holds a result. *)
Finished(c) == task[c].pc \in {"sleep", "done"}

(* The step in which scrape_company handles what fetch_custom gave. *)
Handles(c) == task[c].pc = "handle" /\ task'[c].pc = "sleep"

NoDuplicates(seq) ==
    \A i, j \in DOMAIN seq : i # j => seq[i] # seq[j]

(* C1: the job store holds at most one row for each (source, source_id). *)
C1_OneRowPerSourceId ==
    \A r1, r2 \in jobs :
        (r1.source = r2.source /\ r1.source_id = r2.source_id) => r1 = r2

(* A job was upserted again in a later run, and the store holds two keys. *)
C1_Witness ==
    /\ \E r \in jobs : r.first_seen < r.last_seen
    /\ Cardinality(jobs) = 2

(* C2: no step changes the first_seen of an existing job row: not a later  *)
(* upsert of the same (source, source_id), not the maintenance phase.      *)
C2_FirstSeenFrozen ==
    [][\A r \in jobs :
          \E r2 \in jobs' : r2.id = r.id /\ r2.first_seen = r.first_seen]_vars

(* One row was refreshed by a later upsert, another was marked inactive by *)
(* maintenance.                                                            *)
C2_Witness ==
    /\ phase = "idle"
    /\ \E r \in jobs : r.first_seen < r.last_seen /\ r.is_active
    /\ \E r \in jobs : ~r.is_active

(* C3: a company whose career-URL provenance is not auto keeps its         *)
(* career_url in every step, and the handling of a 404 or 410 on its       *)
(* career page sets scrape_status to HTTP_ERROR.                           *)
C3_ProvenanceProtected ==
    [][\A c \in Companies :
          company[c].career_url_source # "auto" =>
             /\ company'[c].career_url = company[c].career_url
             /\ (Handles(c) /\ task[c].outcome = "http_error"
                            /\ task[c].code \in {404, 410})
                  => company'[c].scrape_status = "HTTP_ERROR"]_vars

(* The manually entered URL of c2 answered 410 and is still there. *)
C3_Witness ==
    /\ Finished("c2")
    /\ task["c2"].outcome = "http_error"
    /\ task["c2"].code = 410
    /\ company["c2"].career_url_source = "manual"
    /\ company["c2"].career_url = CareerUrl
    /\ company["c2"].scrape_status = "HTTP_ERROR"

(* C4: a career_url is cleared only by the handling of a 404 or 410 on the *)
(* first page of an auto-provenance company whose last_discovery_attempt   *)
(* is absent or more than 30 days old; the step stamps                     *)
(* last_discovery_attempt with the current time, and every earlier clear   *)
(* of the same company's URL is more than 30 days back.                    *)
C4_ClearOnlyAfterCooldown ==
    [][\A c \in Companies :
          (company[c].career_url # NULL /\ company'[c].career_url = NULL) =>
             /\ Handles(c)
             /\ task[c].outcome = "http_error"
             /\ task[c].code \in {404, 410}
             /\ task[c].fetched = << company[c].career_url >>
             /\ company[c].career_url_source = "auto"
             /\ \/ company[c].last_discovery_attempt = NoTime
                \/ clock - company[c].last_discovery_attempt > 30
             /\ company'[c].last_discovery_attempt = clock
             /\ \A i \in DOMAIN clears[c] : clock - clears[c][i] > 30]_vars

(* The URL of c1 was cleared, rediscovered, and cleared a second time. *)
C4_Witness == Len(clears["c1"]) = 2

(* C5: when the previous fingerprint equals the hash of the first page,    *)
(* fetch_custom returns no jobs with status UNCHANGED and has made no      *)
(* classifier call; it never goes on to the classifier with such a hash.   *)
C5_UnchangedShortCircuit ==
    \A c \in Companies :
        (task[c].new_hash # NULL /\ task[c].page_hash = task[c].new_hash) =>
           /\ task[c].pc = "handle"
           /\ task[c].outcome = "returned"
           /\ task[c].status = "UNCHANGED"
           /\ task[c].all_jobs = << >>
           /\ task[c].llm_calls = 0

(* fetch_custom has returned UNCHANGED for a page fetched before. *)
C5_Witness ==
    \E c \in Companies :
        /\ task[c].pc = "handle"
        /\ task[c].status = "UNCHANGED"
        /\ task[c].page_hash = task[c].new_hash

(* C6: in one invocation of fetch_custom no URL is fetched twice and at    *)
(* most MAX_PAGES pages are fetched, whatever next-page URLs the           *)
(* classifier returns; every invocation comes to its end.                  *)
C6_PaginationTerminates ==
    /\ [](\A c \in Companies :
            /\ NoDuplicates(task[c].fetched)
            /\ Len(task[c].fetched) <= MAX_PAGES)
    /\ \A c \in Companies :
          (task[c].pc = "fetch_first") ~> (task[c].pc = "handle")

(* Page A led to page B and the classifier pointed back to A: the loop    *)
(* ended, fetch_custom returned OK.                                        *)
C6_Witness ==
    \E c \in Companies :
        /\ task[c].pc = "handle"
        /\ task[c].status = "OK"
        /\ task[c].fetched = << "A", "B" >>
        /\ task[c].next_url = "A"

(* C7: when fetch_custom reported UNCHANGED, the handling leaves the       *)
(* company's scrape_status as it was.                                      *)
C7_UnchangedKeepsStatus ==
    [][\A c \in Companies :
          (Handles(c) /\ task[c].outcome = "returned"
                      /\ task[c].status = "UNCHANGED")
             => company'[c].scrape_status = company[c].scrape_status]_vars

(* UNCHANGED was handled for a company whose status was SPA_DETECTED. *)
C7_Witness ==
    \E c \in Companies :
        /\ Finished(c)
        /\ task[c].ret = "UNCHANGED"
        /\ company[c].scrape_status = "SPA_DETECTED"

(* C8: when the extractor reported SPA_DETECTED for a company, the         *)
(* coroutine has invoked try_ats_fallback for it before it finishes.       *)
C8_ShellTriggersAtsFallback ==
    \A c \in Companies :
        (Finished(c) /\ task[c].ret = "SPA_DETECTED") => c \in ats_calls

(* C9: every company processed in rolling extraction ends with             *)
(* last_scraped set to the time of this run, and an error outcome is       *)
(* recorded in scrape_status.                                              *)
C9_LastScrapedOnEveryOutcome ==
    \A c \in Companies :
        Finished(c) =>
           /\ company[c].last_scraped = clock
           /\ task[c].ret \in {"HTTP_ERROR", "ERROR"}
                => company[c].scrape_status \in {"HTTP_ERROR", "TIMEOUT"}

(* The companies that are due by their own scrape interval. *)
DueByOwnInterval ==
    { c \in Companies :
        /\ company[c].is_enabled
        /\ company[c].career_url # NULL
        /\ \/ company[c].last_scraped = NoTime
           \/ company[c].last_scraped
                 < clock - company[c].scrape_interval_days }

(* C10: right after the Phase 1 query the worklist holds exactly the       *)
(* companies due by their own interval (the first MAX_PER_RUN of them),    *)
(* never-scraped first, then oldest last_scraped first.                    *)
C10_SelectsDueByOwnInterval ==
    (\/ phase = "gather" /\ \A c \in Range(worklist) : task[c].pc = "waiting"
     \/ phase = "phase2" /\ worklist = << >>)
    => /\ Range(worklist) \subseteq DueByOwnInterval
       /\ Len(worklist) = Min(Cardinality(DueByOwnInterval), MAX_PER_RUN)
       /\ \A i, j \in DOMAIN worklist : i < j =>
             nulls_first_asc(company[worklist[i]], company[worklist[j]])
       /\ \A c \in DueByOwnInterval \ Range(worklist) :
             \A i \in DOMAIN worklist :
                nulls_first_asc(company[worklist[i]], company[c])

(* Every coroutine moves on: the event loop runs each ready coroutine, and *)
(* every fetch and classifier call answers or fails.  Progress is checked  *)
(* over the first FairRuns invocations.                                    *)
FairNext ==
    \/ StartRun /\ runs < FairRuns
    \/ Phase0a
    \/ Phase0b
    \/ Phase1Select
    \/ \E c \in Companies : TaskEnter(c)
    \/ \E c \in Companies : FetchFirst(c)
    \/ \E c \in Companies : ExtractPage(c)
    \/ \E c \in Companies : FetchNext(c)
    \/ \E c \in Companies : Handle(c)
    \/ \E c \in Companies : TaskExit(c)
    \/ Gather
    \/ Phase2

FairSpec == Init /\ [][FairNext]_vars /\ WF_vars(FairNext)

(* C11: an exception in one company's coroutine is counted as an error and *)
(* the other coroutines of the run still finish: the gather phase always   *)
(* comes to its end, and the summary then counts every selected company    *)
(* under exactly one status, the failed ones under ERROR.                  *)
C11_FailureIsolated ==
    /\ []((phase = "phase2" /\ worklist # << >>) =>
            /\ \A c \in Range(worklist) :
                  task[c].pc = "done" /\ task[c].ret \in ReturnStatuses
            /\ status_counts["OK"] + status_counts["UNCHANGED"]
                  + status_counts["SPA_DETECTED"] + status_counts["HTTP_ERROR"]
                  + status_counts["ERROR"] = Len(worklist)
            /\ status_counts["ERROR"] =
                  Cardinality({ c \in Range(worklist) : task[c].outcome = "error" }))
    /\ (phase = "gather") ~> (phase = "phase2")

(* The first coroutine of the run failed, the second one then stored jobs. *)
C11_Witness ==
    /\ phase = "phase2"
    /\ Len(worklist) = 2
    /\ task[worklist[1]].ret = "ERROR"
    /\ task[worklist[2]].ret = "OK"
    /\ task[worklist[2]].count > 0
    /\ status_counts["ERROR"] = 1

(* The phases of one invocation happen one after the other: discovery of   *)
(* career URLs has not begun while homepages are being discovered, no      *)
(* coroutine exists before the Phase 1 query, and maintenance begins only  *)
(* when every coroutine has returned.                                      *)
PhasesInOrder ==
    /\ phase \in {"idle", "phase0a"} =>
          websites = {} /\ discovered = {} /\ worklist = << >>
    /\ phase = "phase0b" =>
          /\ discovered = {} /\ worklist = << >>
          /\ \A c \in Companies : discover_args[c] = NotCalled
    /\ phase \in {"idle", "phase0a", "phase0b", "phase1"} =>
          \A c \in Companies : task[c].pc = "none"
    /\ phase = "phase2" => \A c \in Range(worklist) : task[c].pc = "done"

(* Career-URL discovery was called with the homepage found in this run. *)
UsesNewHomepage(c) ==
    (c \in websites /\ phase \in {"phase1", "gather", "phase2"}) =>
        /\ company[c].website_url # NULL
        /\ discover_args[c] \in {NotCalled, company[c].website_url}
        /\ c \in discovered => discover_args[c] = company[c].website_url

(* C12: the phases of a run happen in order; a homepage found in the run   *)
(* is the one career-URL discovery is called with in the same run; and a   *)
(* career URL found in the run is scraped in the same run provided the     *)
(* company is due (never scraped, or scraped more than 5 days ago) and the *)
(* per-run limit of the Phase 1 query does not cut it off.                 *)
C12_DiscoveryFeedsSameRun ==
    /\ PhasesInOrder
    /\ \A c \in Companies :
          /\ UsesNewHomepage(c)
          /\ (c \in discovered /\ phase \in {"gather", "phase2"}
                /\ is_due(company[c], clock))
               => c \in Range(worklist) \/ Len(worklist) = MAX_PER_RUN

(* c1 got a homepage and a career URL in this run, was scraped, and a job  *)
(* of its page is in the store.                                            *)
C12_Witness ==
    /\ phase = "phase2"
    /\ "c1" \in websites
    /\ "c1" \in discovered
    /\ discover_args["c1"] = HomeUrl
    /\ task["c1"].ret = "OK"
    /\ \E r \in jobs : r.company_id = "c1" /\ r.first_seen = clock

(* C12 as stated: a career URL found in the run is always scraped in the   *)
(* same run.                                                               *)
C12_AsStated ==
    /\ PhasesInOrder
    /\ \A c \in Companies :
          /\ UsesNewHomepage(c)
          /\ (c \in discovered /\ phase \in {"gather", "phase2"})
               => c \in Range(worklist)

(* C13: once an invocation has its list of companies, it ends only through *)
(* the maintenance phase, whatever was raised in the phases before it.     *)
C13_MaintenanceAlwaysRuns ==
    [][(phase # "idle" /\ phase' = "idle") => phase = "phase2"]_vars

(* C14: when the upsert of a coroutine receives a job whose (source,       *)
(* source_id) is already stored, the stored row has last_seen equal to the *)
(* time of the upsert and is active afterwards, whatever its flag was.     *)
C14_UpsertRefreshesAndReactivates ==
    [][\A c \in Companies :
          (Handles(c) /\ task[c].outcome = "returned") =>
             \A i \in DOMAIN task[c].all_jobs :
                task[c].all_jobs[i].url # "" =>
                   \A r \in uq_job_source(jobs, task[c].all_jobs[i]) :
                      \E r2 \in jobs' :
                         /\ r2.id = r.id
                         /\ r2.last_seen = clock
                         /\ r2.is_active]_vars

(* A job that maintenance had marked inactive was upserted again and is    *)
(* active, seen now.                                                       *)
C14_Witness ==
    \E c \in Companies :
        /\ Finished(c)
        /\ \E r \in jobs :
              /\ r.id \in task[c].revived
              /\ r.is_active
              /\ r.last_seen = clock
              /\ r.first_seen < clock

(* C15: the maintenance step leaves every job last seen more than 7 days   *)
(* ago inactive and does not change the flag of a job seen within the last *)
(* 7 days; no step of the ingestion removes a row of the job store.        *)
C15_StaleInactiveNeverDeleted ==
    [][/\ \A r \in jobs : \E r2 \in jobs' : r2.id = r.id
       /\ (phase = "phase2" /\ phase' = "idle") =>
             \A r \in jobs : \E r2 \in jobs' :
                /\ r2.id = r.id
                /\ r.last_seen < clock - 7 => ~r2.is_active
                /\ r.last_seen >= clock - 7 => r2.is_active = r.is_active]_vars

(* After maintenance the store holds a job marked inactive, last seen over *)
(* a week ago, next to an active one seen some days ago.                   *)
C15_Witness ==
    /\ phase = "idle"
    /\ \E r \in jobs : ~r.is_active /\ r.last_seen < clock - 7
    /\ \E r \in jobs : r.is_active /\ r.last_seen < clock
                                   /\ r.last_seen >= clock - 7

(* C19: every row of the job store has a non-empty title that contains an  *)
(* include keyword and no exclude keyword, and a non-empty apply URL.      *)
C19_OnlyRelevantTitlesStored ==
    \A r \in jobs :
        /\ r.title # ""
        /\ r.url # ""
        /\ TitleKeywords(r.title) \cap PM_EXCLUDE_KEYWORDS = {}
        /\ TitleKeywords(r.title) \cap PM_TITLE_KEYWORDS # {}

(* The classifier listed a relevant title, two excluded ones (one of them  *)
(* with an include keyword too), one item without URL and one without      *)
(* title; the coroutine stored the relevant jobs only.                     *)
C19_Witness ==
    \E c \in Companies :
        /\ Finished(c)
        /\ task[c].ret = "OK"
        /\ { i.title : i \in task[c].raw_items } =
              { "Product Manager", "Product Marketing Manager",
                "Product Manager, Product Marketing", "" }
        /\ \E i \in task[c].raw_items : i.url = ""
        /\ task[c].count = 2
        /\ { r.title : r \in jobs } = { "Product Manager" }

(* C20: a job that is on its company's career page stays active while the  *)
(* company is scraped every time it is due, also when each of these        *)
(* scrapes finds the page unchanged.                                       *)
C20_ListedJobStaysActive ==
    \A c \in Companies : \A r \in jobs :
        (r.source = "custom" /\ r.source_id \in listed[c]) => r.is_active

----------------------------------------------------------------------------
(* Career-URL discovery (scrapers/url_discovery.py) and homepage           *)
(* validation (scrapers/website_discovery.py), one invocation at a time.   *)
(*                                                                         *)
(* A company name is a sequence of characters, a slug likewise.  A URL     *)
(* built from a template is the pair of the template and what fills it.    *)

ATS_TEMPLATES ==
    [ats \in {"greenhouse", "lever", "ashby", "smartrecruiters", "teamtailor"} |->
       CASE ats = "greenhouse" -> "https://boards.greenhouse.io/{slug}"
         [] ats = "lever" -> "https://jobs.lever.co/{slug}"
         [] ats = "ashby" -> "https://jobs.ashbyhq.com/{slug}"
         [] ats = "smartrecruiters" -> "https://jobs.smartrecruiters.com/{slug}"
         [] ats = "teamtailor" -> "https://{slug}.teamtailor.com/jobs"]

GENERIC_PATTERNS ==
    << "https://{slug}.com/careers", "https://www.{slug}.com/careers",
       "https://careers.{slug}.com", "https://{slug}.com/jobs",
       "https://www.{slug}.com/jobs", "https://jobs.{slug}.com",
       "https://{slug}.com/en/careers", "https://{slug}.com/company/careers" >>

ATS_BLIND_PATTERNS ==
    << "https://boards.greenhouse.io/{slug}", "https://jobs.lever.co/{slug}",
       "https://jobs.ashbyhq.com/{slug}" >>

_MIN_CONTENT_LENGTH == 500

(* pattern.format(slug=...) *)
format(pattern, slug) == [pattern |-> pattern, slug |-> slug]

(* None, where a URL or a slug is expected *)
NoUrl == format("", << >>)
NoSlug == << >>

(* str.lower() over the characters the names of the model are written in *)
lower(s) ==
    [i \in DOMAIN s |-> CASE s[i] = "A" -> "a" [] s[i] = "C" -> "c" [] OTHER -> s[i]]

(* [a-z0-9] *)
is_alnum(ch) == ch \in {"a", "c", "h", "i", "o", "m", "1"}

RECURSIVE strip(_, _)
(* str.strip(chars) *)
strip(s, ch) ==
    IF s = << >> THEN s
    ELSE IF Head(s) = ch THEN strip(Tail(s), ch)
    ELSE IF s[Len(s)] = ch THEN strip(SubSeq(s, 1, Len(s) - 1), ch)
    ELSE s

(* The suffixes of r'\.(com|io|ai|co|dev|app|tech)$' *)
Suffixes ==
    { <<".", "c", "o", "m">>, <<".", "i", "o">>, <<".", "a", "i">>,
      <<".", "c", "o">>, <<".", "d", "e", "v">>, <<".", "a", "p", "p">>,
      <<".", "t", "e", "c", "h">> }

(* re.sub(r'\.(com|io|ai|co|dev|app|tech)$', '', s, flags=re.IGNORECASE) *)
remove_suffix(s) ==
    LET ends(suf) == /\ Len(s) >= Len(suf)
                     /\ lower(SubSeq(s, Len(s) - Len(suf) + 1, Len(s))) = suf
    IN  IF \E suf \in Suffixes : ends(suf)
        THEN SubSeq(s, 1, Len(s) - Len(CHOOSE suf \in Suffixes : ends(suf)))
        ELSE s

RECURSIVE hyphenate(_)
(* re.sub(r'[^a-z0-9]+', '-', s) *)
hyphenate(s) ==
    IF s = << >> THEN << >>
    ELSE IF is_alnum(Head(s)) THEN <<Head(s)>> \o hyphenate(Tail(s))
    ELSE LET rest == hyphenate(Tail(s))
         IN  IF rest # << >> /\ Head(rest) = "-" /\ ~is_alnum(Head(Tail(s)))
             THEN rest ELSE <<"-">> \o rest

slugify(name) ==
    LET clean == strip(remove_suffix(strip(name, " ")), " ")
        low == lower(clean)
        v1 == SelectSeq(low, is_alnum)
        v2 == strip(hyphenate(low), "-")
    IN  (IF v1 # << >> THEN <<v1>> ELSE << >>)
        \o (IF v2 # << >> /\ v2 # v1 THEN <<v2>> ELSE << >>)

(* urlparse(website_url).netloc.lower() of the one homepage of the model *)
netloc(website_url) == <<"w", "w", "w", ".", "a", "c", ".", "c", "o", "m">>

(* str.removeprefix("www.") *)
removeprefix_www(s) ==
    IF Len(s) >= 4 /\ SubSeq(s, 1, 4) = <<"w", "w", "w", ".">>
    THEN SubSeq(s, 5, Len(s)) ELSE s

RECURSIVE first_label(_)
(* s.split(".")[0] *)
first_label(s) ==
    IF s = << >> \/ Head(s) = "." THEN << >> ELSE <<Head(s)>> \o first_label(Tail(s))

_website_url_candidates(website_url) ==
    LET domain == netloc(website_url)
        base == <<"https://">> \o domain
        bare_domain == removeprefix_www(domain)
        domain_slug == first_label(bare_domain)
    IN  << format("{base}/careers", base), format("{base}/jobs", base),
           format("{base}/company/careers", base),
           format("{base}/en/careers", base),
           format("{base}/about/careers", base),
           format("{base}/work-with-us", base),
           format("https://careers.{bare_domain}", bare_domain),
           format("https://jobs.{bare_domain}", bare_domain) >>
        \o [i \in DOMAIN ATS_BLIND_PATTERNS |->
              format(ATS_BLIND_PATTERNS[i], domain_slug)]

(* What one probe of a candidate observes: the status of the HEAD and of   *)
(* the GET (0: the request raised httpx.HTTPError or InvalidURL), and of   *)
(* the page the GET resolved to: whether its host is a known ATS domain,   *)
(* whether its path has a career segment, whether its text has a career    *)
(* keyword, and the length of its content.  The answers of the model: one  *)
(* that passes every check, and ones that differ from it in one or two     *)
(* respects.                                                               *)
ProbeResponses ==
    LET passing == [head |-> 200, get |-> 200, is_ats |-> TRUE,
                    has_career_path |-> TRUE, has_keyword |-> TRUE,
                    length |-> _MIN_CONTENT_LENGTH]
    IN  { [passing EXCEPT !.head = h] : h \in {0, 200, 301, 404, 405} }
        \cup { [passing EXCEPT !.get = g] : g \in {0, 404} }
        \cup { [passing EXCEPT !.is_ats = a, !.has_career_path = p] :
                  a \in BOOLEAN, p \in BOOLEAN }
        \cup { [passing EXCEPT !.has_keyword = FALSE],
               [passing EXCEPT !.length = _MIN_CONTENT_LENGTH - 1],
               [passing EXCEPT !.head = 405, !.length = _MIN_CONTENT_LENGTH - 1],
               [passing EXCEPT !.head = 404, !.is_ats = FALSE] }

(* No candidate has been probed yet *)
NoResponse ==
    [head |-> 0, get |-> 0, is_ats |-> FALSE, has_career_path |-> FALSE,
     has_keyword |-> FALSE, length |-> 0]

_validate_career_url_any_length(r) ==
    IF r.head = 0 THEN FALSE
    ELSE IF r.head >= 400 /\ r.head # 405 THEN FALSE
    ELSE IF r.get = 0 THEN FALSE
    ELSE IF r.get >= 400 THEN FALSE
    ELSE IF ~r.is_ats /\ ~r.has_career_path THEN FALSE
    ELSE IF ~r.has_keyword THEN FALSE
    ELSE TRUE

_validate_career_url(r) ==
    IF r.head = 0 THEN FALSE
    ELSE IF r.head >= 400 /\ r.head # 405 THEN FALSE
    ELSE IF r.get = 0 THEN FALSE
    ELSE IF r.get >= 400 THEN FALSE
    ELSE IF ~r.is_ats /\ ~r.has_career_path THEN FALSE
    ELSE IF ~r.has_keyword THEN FALSE
    ELSE IF r.length < _MIN_CONTENT_LENGTH THEN FALSE
    ELSE TRUE

RECURSIVE by_slug(_, _)
(* Priority 3 of discover_url: for each slug the generic patterns, then    *)
(* the blind ATS patterns unless the slug is the one of the hint           *)
by_slug(slugs, slug) ==
    IF slugs = << >> THEN << >>
    ELSE LET s == Head(slugs)
         IN  [i \in DOMAIN GENERIC_PATTERNS |->
                [url |-> format(GENERIC_PATTERNS[i], s), priority |-> "3"]]
             \o (IF s # slug
                 THEN [i \in DOMAIN ATS_BLIND_PATTERNS |->
                         [url |-> format(ATS_BLIND_PATTERNS[i], s), priority |-> "3"]]
                 ELSE << >>)
             \o by_slug(Tail(slugs), slug)

(* The URLs discover_url validates if none validates, in that order, each  *)
(* with the priority block of the function that produces it.               *)
discover_url_candidates_homepage_first(name, hint, website_url) ==
    LET ats == hint.ats
        slug == hint.slug
        own == slugify(name)
        slugs == IF slug # NoSlug /\ slug \notin Range(own) THEN <<slug>> \o own ELSE own
    IN  (IF website_url # NULL
         THEN LET candidates == _website_url_candidates(website_url)
              IN  [i \in DOMAIN candidates |-> [url |-> candidates[i], priority |-> "2"]]
         ELSE << >>)
        \o (IF ats # NULL /\ slug # NoSlug /\ ats \in DOMAIN ATS_TEMPLATES
            THEN << [url |-> format(ATS_TEMPLATES[ats], slug), priority |-> "1"] >>
            ELSE << >>)
        \o (IF slug # NoSlug
            THEN [i \in DOMAIN ATS_BLIND_PATTERNS |->
                    [url |-> format(ATS_BLIND_PATTERNS[i], slug), priority |-> "1b"]]
            ELSE << >>)
        \o by_slug(slugs, slug)

discover_url_candidates(name, hint, website_url) ==
    LET ats == hint.ats
        slug == hint.slug
        own == slugify(name)
        slugs == IF slug # NoSlug /\ slug \notin Range(own) THEN <<slug>> \o own ELSE own
    IN  (IF ats # NULL /\ slug # NoSlug /\ ats \in DOMAIN ATS_TEMPLATES
         THEN << [url |-> format(ATS_TEMPLATES[ats], slug), priority |-> "1"] >>
         ELSE << >>)
        \o (IF slug # NoSlug
            THEN [i \in DOMAIN ATS_BLIND_PATTERNS |->
                    [url |-> format(ATS_BLIND_PATTERNS[i], slug), priority |-> "1b"]]
            ELSE << >>)
        \o (IF website_url # NULL
            THEN LET candidates == _website_url_candidates(website_url)
                 IN  [i \in DOMAIN candidates |-> [url |-> candidates[i], priority |-> "2"]]
            ELSE << >>)
        \o by_slug(slugs, slug)

(* Company names: one word, two words, one with a domain suffix, one with  *)
(* no letter or digit at all                                               *)
Names ==
    { <<"A", "c">>, <<"A", " ", "C">>, <<"A", "c", ".", "i", "o">>, <<"&">> }

(* hints.get(name.lower(), {}): no hint, platform and slug, a platform     *)
(* without a template, a slug alone, a platform alone                      *)
Hints ==
    { [ats |-> NULL, slug |-> NoSlug],
      [ats |-> "greenhouse", slug |-> <<"a", "c">>],
      [ats |-> "teamtailor", slug |-> <<"a", "c", "h">>],
      [ats |-> "workday", slug |-> <<"a", "c">>],
      [ats |-> NULL, slug |-> <<"a", "c", "h">>],
      [ats |-> "lever", slug |-> NoSlug] }

(* discover_url(client, name, hints, website_url) about to start *)
DiscoverCalls ==
    { [fn |-> "discover_url", pc |-> "probing", name |-> name, hint |-> hint,
       website_url |-> website_url,
       todo |-> discover_url_candidates(name, hint, website_url),
       probes |-> << >>, resp |-> NoResponse, result |-> NoUrl] :
      name \in Names, hint \in Hints, website_url \in {NULL, HomeUrl} }

(* _validate_url(client, url) about to start, url with or without www. *)
ValidateUrlCalls ==
    { [fn |-> "_validate_url", pc |-> "head", www |-> www, probes |-> << >>,
       result |-> NULL] : www \in BOOLEAN }

(* A status of an answered request, or 0 when the request raised *)
HttpStatuses == {0, 200, 301, 404, 405, 500}

DiscoverInit == Seeded /\ call \in DiscoverCalls \cup ValidateUrlCalls

(* discover_url validates its next candidate and returns it if valid *)
ProbeCandidate ==
    /\ call.fn = "discover_url" /\ call.pc = "probing" /\ call.todo # << >>
    /\ \E r \in ProbeResponses :
         LET c == Head(call.todo)
             valid == _validate_career_url(r)
         IN  call' = [call EXCEPT
                 !.probes = Append(@, [url |-> c.url, priority |-> c.priority,
                                        valid |-> valid]),
                 !.resp = r,
                 !.todo = IF valid THEN @ ELSE Tail(@),
                 !.result = IF valid THEN c.url ELSE NoUrl,
                 !.pc = IF valid THEN "done" ELSE "probing"]
    /\ UNCHANGED main_vars

(* discover_url has no candidate left *)
ReturnNone ==
    /\ call.fn = "discover_url" /\ call.pc = "probing" /\ call.todo = << >>
    /\ call' = [call EXCEPT !.result = NoUrl, !.pc = "done"]
    /\ UNCHANGED main_vars

(* str(resp.url): the URL the request to `target` resolved to *)
final_url(target) == target

(* _validate_url: HEAD of the URL as given *)
HeadUrl ==
    /\ call.fn = "_validate_url" /\ call.pc = "head"
    /\ \E status \in HttpStatuses :
         call' = [call EXCEPT
             !.probes = Append(@, [method |-> "HEAD", target |-> "url", status |-> status]),
             !.result = IF status # 0 /\ status < 400 THEN final_url("url") ELSE NULL,
             !.pc = IF status # 0 /\ status < 400 THEN "done"
                    ELSE IF status = 405 THEN "get" ELSE "variant"]
    /\ UNCHANGED main_vars

(* _validate_url: GET of the URL after a 405 on HEAD *)
GetUrl ==
    /\ call.fn = "_validate_url" /\ call.pc = "get"
    /\ \E status \in HttpStatuses :
         call' = [call EXCEPT
             !.probes = Append(@, [method |-> "GET", target |-> "url", status |-> status]),
             !.result = IF status # 0 /\ status < 400 THEN final_url("url") ELSE NULL,
             !.pc = IF status # 0 /\ status < 400 THEN "done" ELSE "variant"]
    /\ UNCHANGED main_vars

(* _validate_url: HEAD of the URL with www. added, or with www. removed *)
HeadVariant ==
    /\ call.fn = "_validate_url" /\ call.pc = "variant"
    /\ \E status \in HttpStatuses :
         LET target == IF call.www THEN "no_www" ELSE "www_url"
         IN  call' = [call EXCEPT
                 !.probes = Append(@, [method |-> "HEAD", target |-> target,
                                        status |-> status]),
                 !.result = IF status # 0 /\ status < 400 THEN final_url(target) ELSE NULL,
                 !.pc = "done"]
    /\ UNCHANGED main_vars

DiscoverNext ==
    \/ ProbeCandidate
    \/ ReturnNone
    \/ HeadUrl
    \/ GetUrl
    \/ HeadVariant

DiscoverSpec == DiscoverInit /\ [][DiscoverNext]_vars

----------------------------------------------------------------------------
(* Source adapters (scrapers/greenhouse.py, lever.py, ashby.py,            *)
(* smartrecruiters.py, teamtailor.py), one invocation at a time.           *)

Adapters ==
    { "fetch_greenhouse", "fetch_lever", "fetch_ashby", "fetch_smartrecruiters",
      "fetch_teamtailor" }

(* JSON null, where a title is expected *)
JsonNull == "null"

(* An element of the postings array: an object with a title, an id and,    *)
(* for Lever, categories.allLocations (absent, empty or with one entry),   *)
(* or a string.                                                            *)
Posting(shape, title, id, locations) ==
    [shape |-> shape, title |-> title, id |-> id, locations |-> locations]

PostingLists ==
    LET pm == Posting("object", "Product Manager", "j1", "one")
    IN  { << >>,
          << pm >>,
          << Posting("object", "Product Marketing Manager", "j2", "one"), pm >>,
          << pm, Posting("object", "Product Manager", "", "absent") >>,
          << pm, Posting("object", JsonNull, "j2", "absent") >>,
          << pm, Posting("object", "Product Manager", "j2", "empty") >>,
          << Posting("string", "", "", "absent") >> }

(* The body of a 200 answer: not JSON; a JSON scalar; a JSON array; a JSON *)
(* object in which the key the adapter reads is absent, null or an array.  *)
Payloads ==
    { [top |-> "not_json", field |-> "absent", items |-> << >>],
      [top |-> "scalar", field |-> "absent", items |-> << >>],
      [top |-> "object", field |-> "absent", items |-> << >>],
      [top |-> "object", field |-> "null", items |-> << >>] }
    \cup { [top |-> top, field |-> "list", items |-> items] :
             top \in {"object", "list"}, items \in PostingLists }

NoPayload == [top |-> "not_json", field |-> "absent", items |-> << >>]

(* The statuses on which the adapter returns without raise_for_status *)
quiet_statuses(fn) ==
    CASE fn = "fetch_ashby" -> {404, 400}
      [] fn = "fetch_teamtailor" -> {404, 403}
      [] OTHER -> {404}

(* An adapter about to start; status 0 is a request that raised *)
AdapterCalls ==
    { [fn |-> fn, pc |-> "fetch", status |-> r[1], payload |-> r[2],
       todo |-> << >>, yielded |-> << >>, error |-> NULL] :
      fn \in Adapters,
      r \in ({0, 400, 403, 404, 500} \X {NoPayload}) \cup ({200} \X Payloads) }

(* What the adapter iterates over once the body is decoded, or the         *)
(* exception that evaluating it raises                                     *)
postings(fn, data) ==
    LET of_dict == CASE data.field = "list" -> [error |-> NULL, jobs |-> data.items]
                     [] data.field = "absent" -> [error |-> NULL, jobs |-> << >>]
                     [] data.field = "null" -> [error |-> "TypeError", jobs |-> << >>]
    IN  CASE fn \in {"fetch_greenhouse", "fetch_ashby", "fetch_smartrecruiters"} ->
               IF data.top = "object" THEN of_dict
               ELSE [error |-> "AttributeError", jobs |-> << >>]
          [] fn = "fetch_lever" ->
               IF data.top = "list" THEN [error |-> NULL, jobs |-> data.items]
               ELSE IF data.top = "object" THEN of_dict
               ELSE [error |-> "AttributeError", jobs |-> << >>]
          [] fn = "fetch_teamtailor" ->
               IF data.top = "list" THEN [error |-> NULL, jobs |-> data.items]
               ELSE IF data.top = "object" THEN of_dict
               ELSE [error |-> NULL, jobs |-> << >>]

(* One iteration of the loop over the postings: the exception it raises,   *)
(* "skip" for continue, "yield" for a job handed to the caller             *)
loop_body(fn, job) ==
    IF job.shape # "object" THEN "AttributeError"
    ELSE IF job.title = JsonNull THEN "AttributeError"
    ELSE IF ~is_pm_role(job.title) THEN "skip"
    ELSE IF fn \in {"fetch_smartrecruiters", "fetch_teamtailor"} /\ job.id = ""
         THEN "skip"
    ELSE IF fn = "fetch_lever" /\ job.locations = "empty" THEN "IndexError"
    ELSE "yield"

AdapterInit == Seeded /\ call \in AdapterCalls

(* The try block: the request, the quiet statuses, raise_for_status and    *)
(* resp.json(); every exception in it is logged and ends the generator.    *)
AdapterFetch ==
    /\ call.fn \in Adapters /\ call.pc = "fetch"
    /\ call' = [call EXCEPT !.pc =
                   IF \/ call.status = 0
                      \/ call.status \in quiet_statuses(call.fn)
                      \/ call.status >= 400
                      \/ call.payload.top = "not_json"
                   THEN "done" ELSE "decoded"]
    /\ UNCHANGED main_vars

(* The expression the for statement iterates over, outside the try block *)
AdapterPostings ==
    /\ call.fn \in Adapters /\ call.pc = "decoded"
    /\ LET p == postings(call.fn, call.payload)
       IN  call' = [call EXCEPT !.error = p.error, !.todo = p.jobs,
                                !.pc = IF p.error # NULL THEN "raised" ELSE "loop"]
    /\ UNCHANGED main_vars

(* One posting is skipped, yielded, or raises *)
AdapterPosting ==
    /\ call.fn \in Adapters /\ call.pc = "loop" /\ call.todo # << >>
    /\ LET job == Head(call.todo)
           out == loop_body(call.fn, job)
       IN  call' = [call EXCEPT
               !.todo = Tail(@),
               !.yielded = IF out = "yield" THEN Append(@, job.id) ELSE @,
               !.error = IF out \in {"skip", "yield"} THEN NULL ELSE out,
               !.pc = IF out \in {"skip", "yield"} THEN "loop" ELSE "raised"]
    /\ UNCHANGED main_vars

(* The postings are exhausted *)
AdapterReturn ==
    /\ call.fn \in Adapters /\ call.pc = "loop" /\ call.todo = << >>
    /\ call' = [call EXCEPT !.pc = "done"]
    /\ UNCHANGED main_vars

AdapterNext ==
    \/ AdapterFetch
    \/ AdapterPostings
    \/ AdapterPosting
    \/ AdapterReturn

AdapterSpec == AdapterInit /\ [][AdapterNext]_vars

----------------------------------------------------------------------------
(* The hint names a platform that has a template, and a slug *)
HasDirectHint(c) ==
    c.hint.ats # NULL /\ c.hint.slug # NoSlug /\ c.hint.ats \in DOMAIN ATS_TEMPLATES

(* C16: discover_url probes the direct URL of the hint first, then the     *)
(* slug of the hint on the platform templates, then the candidates derived *)
(* from the homepage, then those derived from the name; a block is entered *)
(* only after every earlier block that applies was probed entirely; the    *)
(* first candidate that validates is returned and is the last one probed.  *)
(* With a hint and a homepage, a valid hint URL means no homepage          *)
(* candidate is probed.                                                    *)
C16_FirstValidInPriorityOrder ==
    call.fn = "discover_url" =>
        LET p == call.probes
            rank(g) == CASE g = "1" -> 1 [] g = "1b" -> 2 [] g = "2" -> 3 [] g = "3" -> 4
            count(g) == Cardinality({ i \in DOMAIN p : p[i].priority = g })
            due(g) ==
                CASE g = "1" -> IF HasDirectHint(call) THEN 1 ELSE 0
                  [] g = "1b" -> IF call.hint.slug # NoSlug
                                 THEN Len(ATS_BLIND_PATTERNS) ELSE 0
                  [] g = "2" -> IF call.website_url # NULL
                                THEN Len(_website_url_candidates(call.website_url))
                                ELSE 0
                  [] g = "3" -> 0
        IN  /\ \A i, j \in DOMAIN p :
                  i < j => rank(p[i].priority) <= rank(p[j].priority)
            /\ \A i \in DOMAIN p : \A g \in {"1", "1b", "2"} :
                  rank(g) < rank(p[i].priority) => count(g) = due(g)
            /\ \A i \in DOMAIN p :
                  p[i].valid =>
                      i = Len(p) /\ call.pc = "done" /\ call.result = p[i].url
            /\ (call.pc = "done" /\ call.result # NoUrl) =>
                  p # << >> /\ p[Len(p)].valid
            /\ (HasDirectHint(call) /\ call.website_url # NULL
                  /\ p # << >> /\ p[1].valid) =>
                  p[1].priority = "1" /\ count("2") = 0

(* A hint and a homepage are both known, the URL of the hint validated and *)
(* was returned after one probe.                                           *)
C16_Witness ==
    /\ call.fn = "discover_url" /\ call.pc = "done"
    /\ HasDirectHint(call) /\ call.website_url = HomeUrl
    /\ Len(call.probes) = 1 /\ call.probes[1].valid
    /\ call.result = format(ATS_TEMPLATES["greenhouse"], <<"a", "c">>)

C18_AdapterNeverRaises ==
    call.fn \in Adapters => call.pc # "raised"

----------------------------------------------------------------------------
(* The AsyncSession that main() hands to every scrape_company coroutine.   *)
(* Two coroutines hold a permit of the semaphore at the same time (the     *)
(* source allows five); each step below is the code between two awaits.    *)
(* The session has one transaction: a statement joins it when executed, a  *)
(* commit ends it for everybody, and once the database has rejected a      *)
(* statement it refuses every further one until the transaction ends.      *)

Coroutines == {"a", "b"}

(* The rows fetch_custom may hand to upsert_jobs, by their position *)
MaxRows == 2

SessionCalls ==
    { [fn |-> "gather", pc |-> "running",
       co |-> [t \in Coroutines |->
                 [pc |-> "fetch_custom", rows |-> n[t], executed |-> 0, ret |-> NULL]],
       pending |-> {}, committed |-> {}, aborted |-> FALSE, rejected |-> {}] :
      n \in [Coroutines -> 0..MaxRows] }

SessionInit == Seeded /\ call \in SessionCalls

(* fetch_custom returns its jobs; upsert_jobs returns 0 at once for none *)
SessionFetch(t) ==
    /\ call.fn = "gather" /\ call.co[t].pc = "fetch_custom"
    /\ call' = [call EXCEPT !.co[t].pc =
                   IF call.co[t].rows = 0 THEN "track" ELSE "execute"]
    /\ UNCHANGED main_vars

(* upsert_jobs: await session.execute(stmt) for the next row.  The         *)
(* database takes the row, or rejects it (a title longer than the column), *)
(* or refuses it because the transaction is already aborted; an exception  *)
(* ends the coroutine in `except Exception`, which does not roll back.     *)
SessionExecute(t) ==
    /\ call.fn = "gather" /\ call.co[t].pc = "execute"
    /\ \/ /\ ~call.aborted
          /\ call' = [call EXCEPT
                 !.pending = @ \cup {[by |-> t, row |-> call.co[t].executed + 1]},
                 !.co[t].executed = @ + 1,
                 !.co[t].pc = IF call.co[t].executed + 1 = call.co[t].rows
                              THEN "commit" ELSE "execute"]
       \/ /\ ~call.aborted
          /\ call' = [call EXCEPT !.aborted = TRUE, !.rejected = @ \cup {t},
                                  !.co[t].pc = "returned", !.co[t].ret = "ERROR"]
       \/ /\ call.aborted
          /\ call' = [call EXCEPT !.co[t].pc = "returned", !.co[t].ret = "ERROR"]
    /\ UNCHANGED main_vars

(* upsert_jobs: await session.commit().  Everything pending in the         *)
(* session is committed, whoever executed it; the commit of an aborted     *)
(* transaction discards everything pending.                                *)
SessionCommitUpsert(t) ==
    /\ call.fn = "gather" /\ call.co[t].pc = "commit"
    /\ call' = [call EXCEPT
           !.committed = IF call.aborted THEN @ ELSE @ \cup call.pending,
           !.pending = {},
           !.aborted = FALSE,
           !.co[t].pc = "track"]
    /\ UNCHANGED main_vars

(* scrape_company: the status tracking, last_scraped and page_hash are     *)
(* assigned and await session.commit() flushes them as an UPDATE and       *)
(* commits; the UPDATE is refused when the transaction is aborted.         *)
SessionTrack(t) ==
    /\ call.fn = "gather" /\ call.co[t].pc = "track"
    /\ call' =
         IF call.aborted
         THEN [call EXCEPT !.co[t].pc = "returned", !.co[t].ret = "ERROR"]
         ELSE [call EXCEPT
                 !.committed = @ \cup call.pending \cup {[by |-> t, row |-> 0]},
                 !.pending = {},
                 !.co[t].pc = "returned", !.co[t].ret = "OK"]
    /\ UNCHANGED main_vars

SessionNext ==
    \/ \E t \in Coroutines : SessionFetch(t)
    \/ \E t \in Coroutines : SessionExecute(t)
    \/ \E t \in Coroutines : SessionCommitUpsert(t)
    \/ \E t \in Coroutines : SessionTrack(t)

SessionSpec == SessionInit /\ [][SessionNext]_vars

----------------------------------------------------------------------------
(* One invocation of fetch_custom on a site with more listing pages than   *)
(* MAX_PAGES: the classifier may name a page not seen yet after every      *)
(* page.                                                                   *)

PageUrls ==
    << "p1", "p2", "p3", "p4", "p5", "p6", "p7", "p8", "p9", "p10", "p11",
       "p12", "p13", "p14", "p15", "p16", "p17", "p18", "p19", "p20", "p21",
       "p22" >>

(* fetch_custom(career_url, company_name, page_hash) about to start *)
PaginationCalls ==
    { [fn |-> "fetch_custom", pc |-> "fetch_first", page_hash |-> h,
       page_num |-> 0, visited |-> {}, next_url |-> NULL,
       fetches |-> 0, llm_calls |-> 0, status |-> NULL] :
      h \in {NULL, "h1"} }

PaginationInit == Seeded /\ call \in PaginationCalls

(* The first page: _fetch_page, change detection, SPA detection *)
PageFetchFirst ==
    /\ call.fn = "fetch_custom" /\ call.pc = "fetch_first"
    /\ \E resp \in FetchResponses :
         LET t == [call EXCEPT !.fetches = @ + 1]
         IN  call' =
               IF resp.code = 0 \/ resp.code >= 400
               THEN [t EXCEPT !.pc = "raised"]
               ELSE IF Unchanged(call.page_hash, sha256(resp.body))
               THEN [t EXCEPT !.pc = "returned", !.status = "UNCHANGED"]
               ELSE IF _detect_spa(resp.body)
               THEN [t EXCEPT !.pc = "returned", !.status = "SPA_DETECTED"]
               ELSE [t EXCEPT !.pc = "extract", !.visited = {PageUrls[1]},
                              !.page_num = 1]
    /\ UNCHANGED main_vars

(* What the classifier may name as the next page: nothing, the career      *)
(* page, or a page not visited yet                                         *)
NextPageUrls(visited) ==
    {NULL, PageUrls[1]}
    \cup (IF Cardinality(visited) < Len(PageUrls)
          THEN {PageUrls[Cardinality(visited) + 1]} ELSE {})

(* One _extract_page call, then the guard of the pagination loop *)
PageExtract ==
    /\ call.fn = "fetch_custom" /\ call.pc = "extract"
    /\ \/ call' = [call EXCEPT !.llm_calls = @ + 1, !.pc = "raised"]
       \/ \E next_url \in NextPageUrls(call.visited) :
            call' =
              IF FollowNext(next_url, call.page_num, call.visited)
              THEN [call EXCEPT !.llm_calls = @ + 1, !.next_url = next_url,
                                !.page_num = @ + 1,
                                !.visited = @ \cup {next_url},
                                !.pc = "fetch_next"]
              ELSE [call EXCEPT !.llm_calls = @ + 1, !.next_url = next_url,
                                !.pc = "returned", !.status = "OK"]
    /\ UNCHANGED main_vars

(* _fetch_page of a pagination page *)
PageFetchNext ==
    /\ call.fn = "fetch_custom" /\ call.pc = "fetch_next"
    /\ \E resp \in FetchResponses :
         LET t == [call EXCEPT !.fetches = @ + 1]
         IN  call' =
               IF resp.code = 0 THEN [t EXCEPT !.pc = "raised"]
               ELSE IF resp.code >= 400 \/ resp.body.md_len < SPA_MIN_CHARS
               THEN [t EXCEPT !.pc = "returned", !.status = "OK"]
               ELSE [t EXCEPT !.pc = "extract"]
    /\ UNCHANGED main_vars

PaginationNext ==
    \/ PageFetchFirst
    \/ PageExtract
    \/ PageFetchNext

PaginationSpec == PaginationInit /\ [][PaginationNext]_vars

----------------------------------------------------------------------------
(* The row of one enabled company over the invocations in which it is      *)
(* scraped or rediscovered, with the result of its last scrape and the     *)
(* scrape_status it had before.                                            *)

(* What fetch_custom gives scrape_company for a company with this row: it  *)
(* returns UNCHANGED (only with a stored hash), SPA_DETECTED or OK with a  *)
(* job list and the hash of a changed page, or raises an HTTP status       *)
(* error, or raises something else.                                        *)
ScrapeOutcomes(row) ==
    LET changed == {"h1", "h2"} \ {row.page_hash}
        ret(status, joblist, h) ==
            [outcome |-> "returned", status |-> status, jobs |-> joblist,
             new_hash |-> h, code |-> 0]
    IN  (IF row.page_hash # NULL
         THEN { ret("UNCHANGED", << >>, row.page_hash) } ELSE {})
        \cup { ret("SPA_DETECTED", << >>, h) : h \in changed }
        \cup { ret("OK", _items_to_jobs(_extract_page(llm).items), h) :
                 llm \in { l \in LlmResponses : l.kind # "raise" }, h \in changed }
        \cup { [outcome |-> "http_error", status |-> NULL, jobs |-> << >>,
                new_hash |-> NULL, code |-> k] : k \in {404, 410, 500} }
        \cup { [outcome |-> "error", status |-> NULL, jobs |-> << >>,
                new_hash |-> NULL, code |-> 0] }

NoOutcome ==
    [outcome |-> "none", status |-> NULL, jobs |-> << >>, new_hash |-> NULL,
     code |-> 0]

StatusCalls ==
    { [fn |-> "scrape_company", pc |-> "idle", clock |-> 0,
       row |-> [website_url |-> HomeUrl, career_url |-> CareerUrl,
                career_url_source |-> src, is_enabled |-> TRUE,
                last_scraped |-> NoTime, page_hash |-> NULL,
                scrape_interval_days |-> 5, last_discovery_attempt |-> NoTime,
                scrape_status |-> NULL],
       before |-> NULL, last |-> NoOutcome] : src \in Sources }

StatusInit == Seeded /\ call \in StatusCalls

(* scrape_company for the company, given what fetch_custom did *)
scrape_company(row, o, now) ==
    CASE o.outcome = "returned" ->
           on_returned(row, o.status, upsert_count(o.jobs), o.new_hash, now)
      [] o.outcome = "http_error" -> on_http_error(row, o.code, now)
      [] o.outcome = "error" -> on_other_error(row, now)

(* A later invocation of main() in which the company is due *)
ScrapeDue ==
    /\ call.fn = "scrape_company"
    /\ \E d \in AdvanceDays :
         LET now == call.clock + d
         IN  /\ now <= StatusMaxDay
             /\ is_due(call.row, now)
             /\ \E o \in ScrapeOutcomes(call.row) :
                  call' = [call EXCEPT !.clock = now,
                                       !.before = call.row.scrape_status,
                                       !.last = o,
                                       !.row = scrape_company(call.row, o, now)]
    /\ UNCHANGED main_vars

(* Phase 0b of an invocation finds a career URL for the company *)
Rediscover ==
    /\ call.fn = "scrape_company"
    /\ call.row.career_url = NULL
    /\ call' = [call EXCEPT !.row.career_url = CareerUrl]
    /\ UNCHANGED main_vars

StatusNext ==
    \/ ScrapeDue
    \/ Rediscover

StatusSpec == StatusInit /\ [][StatusNext]_vars

----------------------------------------------------------------------------
(* The rolling window over invocations without end.  Every company is      *)
(* enabled and has a career URL; invocations are RunGap days apart.  Time  *)
(* is kept relative to the current invocation, which happens at RollNow:   *)
(* when an invocation ends every last_scraped moves RunGap into the past,  *)
(* down to 0, which stands for RollNow days ago or more.                   *)

RollNow == 12
RunGap == 6

RollingCalls ==
    { [fn |-> "rolling", pc |-> "select",
       table |-> [c \in Companies |->
                    [is_enabled |-> TRUE, career_url |-> CareerUrl,
                     last_scraped |-> NoTime]],
       worklist |-> << >>, todo |-> {}, processed |-> {}] }

RollingInit == Seeded /\ call \in RollingCalls

(* main: the Phase 1 query *)
RollingSelect ==
    /\ call.fn = "rolling" /\ call.pc = "select"
    /\ \E companies \in due_query(call.table, RollNow) :
         call' = [call EXCEPT !.worklist = companies, !.todo = Range(companies),
                              !.pc = "scrape"]
    /\ UNCHANGED main_vars

(* scrape_company for a selected company: it ends in the try block or in   *)
(* the HTTP status handler, which stamp last_scraped, or in `except        *)
(* Exception`, which leaves the row as it is.                              *)
RollingScrape(c) ==
    /\ call.fn = "rolling" /\ call.pc = "scrape" /\ c \in call.todo
    /\ \E stamped \in BOOLEAN :
         call' = [call EXCEPT
             !.todo = @ \ {c},
             !.processed = @ \cup {c},
             !.table[c] = IF stamped
                          THEN [@ EXCEPT !.last_scraped = RollNow]
                          ELSE on_other_error(@, RollNow)]
    /\ UNCHANGED main_vars

(* The invocation ends; the next one is RunGap days later *)
RollingEnd ==
    /\ call.fn = "rolling" /\ call.pc = "scrape" /\ call.todo = {}
    /\ call' = [call EXCEPT
           !.pc = "select", !.worklist = << >>,
           !.table = [c \in Companies |->
                        [@[c] EXCEPT !.last_scraped =
                            IF @ = NoTime THEN NoTime
                            ELSE IF @ < RunGap THEN 0 ELSE @ - RunGap]]]
    /\ UNCHANGED main_vars

RollingNext ==
    \/ RollingSelect
    \/ \E c \in Companies : RollingScrape(c)
    \/ RollingEnd

(* The scheduler starts invocation after invocation and every coroutine    *)
(* of an invocation finishes.                                              *)
RollingSpec == RollingInit /\ [][RollingNext]_vars /\ WF_vars(RollingNext)

----------------------------------------------------------------------------
(* The calls to the generative-text services: _search_sonar and            *)
(* _search_gemini (career_discovery.py) post with httpx, _extract_page     *)
(* (llm_career.py) calls client.chat.completions.create once.  The model   *)
(* counts the requests the repository's code issues.                       *)

TextServiceFns == {"_search_sonar", "_search_gemini", "_extract_page"}

(* What the service may answer: an HTTP status with a kind of body, or     *)
(* no response at all (status 0: timeout, connection error).               *)
TextResponses ==
    { [status |-> 200, body |-> b] : b \in {"url", "not_found", "bad_json"} }
      \cup { [status |-> st, body |-> "none"] :
               st \in {0, 400, 401, 403, 429, 500, 503} }

TextCalls ==
    { [fn |-> f, pc |-> "start", has_key |-> k, attempt |-> 0, requests |-> 0,
       slept |-> 0, responses |-> << >>, result |-> "none"] :
        f \in TextServiceFns, k \in BOOLEAN }

TextInit == Seeded /\ call \in TextCalls

(* `if not api_key: return ProviderResult(error=...)`; the OpenAI client is *)
(* built by _get_client before _extract_page is called.                    *)
TextStart ==
    /\ call.fn \in TextServiceFns /\ call.pc = "start"
    /\ call' = IF call.fn # "_extract_page" /\ ~call.has_key
               THEN [call EXCEPT !.pc = "done", !.result = "error"]
               ELSE [call EXCEPT !.pc = "post"]
    /\ UNCHANGED main_vars

(* client.post(...) inside `for attempt in range(2)` *)
TextPost ==
    /\ call.fn \in {"_search_sonar", "_search_gemini"} /\ call.pc = "post"
    /\ \E resp \in TextResponses :
         call' = [call EXCEPT !.requests = @ + 1,
                              !.responses = Append(@, resp),
                              !.pc = "answer"]
    /\ UNCHANGED main_vars

(* `if status_code == 429 and attempt == 0: await asyncio.sleep(4); continue` *)
TextBackoff ==
    /\ call.fn \in {"_search_sonar", "_search_gemini"} /\ call.pc = "answer"
    /\ call.responses[Len(call.responses)].status = 429 /\ call.attempt = 0
    /\ call' = [call EXCEPT !.slept = @ + 1, !.attempt = 1, !.pc = "post"]
    /\ UNCHANGED main_vars

(* raise_for_status, parsing of the body, and the two except clauses *)
TextReturn ==
    /\ call.fn \in {"_search_sonar", "_search_gemini"} /\ call.pc = "answer"
    /\ LET resp == call.responses[Len(call.responses)] IN
         /\ ~(resp.status = 429 /\ call.attempt = 0)
         /\ call' = [call EXCEPT !.pc = "done",
                !.result = IF resp.status # 200 THEN "error"
                           ELSE IF resp.body = "bad_json" THEN "error"
                           ELSE IF resp.body = "url" THEN "url"
                           ELSE "no_url"]
    /\ UNCHANGED main_vars

(* _extract_page: one `await client.chat.completions.create(...)`; an      *)
(* exception of the call leaves the function, invalid JSON in the answer   *)
(* returns ([], None).                                                     *)
TextCreate ==
    /\ call.fn = "_extract_page" /\ call.pc = "post"
    /\ \E resp \in TextResponses :
         call' = [call EXCEPT !.requests = @ + 1,
                              !.responses = Append(@, resp),
                              !.pc = "done",
                              !.result = IF resp.status # 200 THEN "raised"
                                         ELSE IF resp.body = "bad_json" THEN "empty"
                                         ELSE "items"]
    /\ UNCHANGED main_vars

TextNext ==
    \/ TextStart
    \/ TextPost
    \/ TextBackoff
    \/ TextReturn
    \/ TextCreate

TextSpec == TextInit /\ [][TextNext]_vars

----------------------------------------------------------------------------
(* fetch_proxycurl (proxycurl.py): an async generator over SEARCH_QUERIES  *)
(* with a daily cap read from, and written to, the api_usage ledger.       *)
(* `ledger` is today's call_count for the source, `recorded` its value     *)
(* when the generator started, `sent` the requests handed to the vendor,   *)
(* `yielded` the jobs delivered to the consumer.                           *)

DAILY_CAP == 8
SEARCH_QUERIES == 1 .. 6
MaxYield == 2

(* What client.get may end in: a body with n postings that pass the        *)
(* filters, an error status, or no response (timeout, connection lost).    *)
VendorAnswers ==
    { [kind |-> "ok", yields |-> n] : n \in 0 .. MaxYield }
      \cup { [kind |-> k, yields |-> 0] : k \in {"status_error", "no_response"} }

ProxycurlCalls ==
    { [fn |-> "fetch_proxycurl", pc |-> "start", has_key |-> k,
       recorded |-> n, ledger |-> n, remaining |-> 0, calls_made |-> 0,
       sent |-> 0, query |-> 1, pending |-> 0, yielded |-> 0] :
        k \in BOOLEAN, n \in 0 .. DAILY_CAP }

ProxycurlInit == Seeded /\ call \in ProxycurlCalls

(* lines 58-69: the key check, _count_today_calls and the cap check *)
ProxycurlStart ==
    /\ call.fn = "fetch_proxycurl" /\ call.pc = "start"
    /\ LET calls_today == call.ledger IN
         call' = IF ~call.has_key \/ calls_today >= DAILY_CAP
                 THEN [call EXCEPT !.pc = "done"]
                 ELSE [call EXCEPT !.pc = "loop",
                                   !.remaining = DAILY_CAP - calls_today]
    /\ UNCHANGED main_vars

(* lines 72-97: one request.  calls_made is incremented once client.get    *)
(* has returned a response; both except clauses break out of the loop.     *)
ProxycurlGet ==
    /\ call.fn = "fetch_proxycurl" /\ call.pc = "loop"
    /\ call.query \in SEARCH_QUERIES /\ call.calls_made < call.remaining
    /\ \E a \in VendorAnswers :
         call' = [call EXCEPT
             !.sent = @ + 1,
             !.calls_made = IF a.kind = "no_response" THEN @ ELSE @ + 1,
             !.pending = a.yields,
             !.query = IF a.kind = "ok" /\ a.yields = 0 THEN @ + 1 ELSE @,
             !.pc = IF a.kind # "ok" THEN "finish"
                    ELSE IF a.yields = 0 THEN "loop" ELSE "yield"]
    /\ UNCHANGED main_vars

(* The loop ends: the queries are exhausted or `calls_made >= remaining` *)
ProxycurlBreak ==
    /\ call.fn = "fetch_proxycurl" /\ call.pc = "loop"
    /\ call.query \notin SEARCH_QUERIES \/ call.calls_made >= call.remaining
    /\ call' = [call EXCEPT !.pc = "finish"]
    /\ UNCHANGED main_vars

(* lines 113-123: the generator is suspended at `yield` and the consumer   *)
(* asks for the next job.                                                  *)
ProxycurlYield ==
    /\ call.fn = "fetch_proxycurl" /\ call.pc = "yield"
    /\ call' = [call EXCEPT
           !.pending = @ - 1,
           !.yielded = @ + 1,
           !.query = IF call.pending = 1 THEN @ + 1 ELSE @,
           !.pc = IF call.pending = 1 THEN "loop" ELSE "yield"]
    /\ UNCHANGED main_vars

(* The consumer stops reading: the generator is closed at the `yield`,     *)
(* GeneratorExit leaves the function through `async with`.                 *)
ProxycurlClose ==
    /\ call.fn = "fetch_proxycurl" /\ call.pc = "yield"
    /\ call' = [call EXCEPT !.pc = "closed"]
    /\ UNCHANGED main_vars

(* lines 125-127 and _increment_call_count *)
ProxycurlFinish ==
    /\ call.fn = "fetch_proxycurl" /\ call.pc = "finish"
    /\ call' = [call EXCEPT
           !.ledger = IF call.calls_made > 0 THEN @ + call.calls_made ELSE @,
           !.pc = "done"]
    /\ UNCHANGED main_vars

ProxycurlNext ==
    \/ ProxycurlStart
    \/ ProxycurlGet
    \/ ProxycurlBreak
    \/ ProxycurlYield
    \/ ProxycurlClose
    \/ ProxycurlFinish

ProxycurlSpec == ProxycurlInit /\ [][ProxycurlNext]_vars

----------------------------------------------------------------------------
(* infer_seniority and infer_geo (normalizer.py).  A title or a location   *)
(* is a sequence of fragments of text; a keyword is the sequence of its    *)
(* lower-case fragments, and `kw in t` is an occurrence of that sequence   *)
(* in the lowered text.  The fragments are chosen so that a keyword        *)
(* occurs in a text only where its fragments do ("intern" + "ship" is      *)
(* "internship").                                                          *)

MaxTitleLen == 5
MaxLocationLen == 3

TitleFragments ==
    {"Senior", "STAFF", "Staff", "Lead", "Intern", "ship", "Junior",
     "Director", " ", "Product Manager"}

LocationFragments ==
    {"Remote", "WFH", ", ", "Germany", "Berlin", "London", "Austin",
     "Sydney", "Lima"}

(* str.lower() *)
lower_text(t) ==
    [i \in DOMAIN t |->
        CASE t[i] = "Senior" -> "senior"
          [] t[i] \in {"STAFF", "Staff"} -> "staff"
          [] t[i] = "Lead" -> "lead"
          [] t[i] = "Intern" -> "intern"
          [] t[i] = "Junior" -> "junior"
          [] t[i] = "Director" -> "director"
          [] t[i] = "Product Manager" -> "product manager"
          [] t[i] = "Remote" -> "remote"
          [] t[i] = "WFH" -> "wfh"
          [] t[i] = "Germany" -> "germany"
          [] t[i] = "Berlin" -> "berlin"
          [] t[i] = "London" -> "london"
          [] t[i] = "Austin" -> "austin"
          [] t[i] = "Sydney" -> "sydney"
          [] t[i] = "Lima" -> "lima"
          [] OTHER -> t[i]]

(* `kw in t` *)
occurs(kw, t) ==
    \E i \in 1 .. (Len(t) - Len(kw) + 1) : SubSeq(t, i, i + Len(kw) - 1) = kw

(* `any(kw in t for kw in KEYWORDS)` *)
any_in(KEYWORDS, t) == \E kw \in KEYWORDS : occurs(kw, t)

LEADERSHIP_KW ==
    {<<"director">>, <<"vp">>, <<"vice", " ", "president">>,
     <<"head", " ", "of">>, <<"cpo">>, <<"chief", " ", "product">>}
STAFF_KW == {<<"staff">>, <<"principal">>, <<"distinguished">>}
LEAD_KW == {<<"lead">>, <<"group">>, <<"group", " ", "product">>}
SENIOR_KW == {<<"senior">>, <<"sr.">>}
JUNIOR_KW ==
    {<<"junior">>, <<"associate">>, <<"entry">>, <<"entry", "-", "level">>,
     <<"entry", " ", "level">>, <<"jr.">>}
INTERN_KW == {<<"intern">>, <<"intern", "ship">>, <<"apprentice">>}

infer_seniority_senior_before_staff(title) ==
    LET t == lower_text(title) IN
    IF any_in(INTERN_KW, t) THEN "INTERN"
    ELSE IF any_in(LEADERSHIP_KW, t) THEN "LEADERSHIP"
    ELSE IF any_in(SENIOR_KW, t) THEN "SENIOR"
    ELSE IF any_in(STAFF_KW, t) THEN "STAFF"
    ELSE IF any_in(LEAD_KW, t) THEN "LEAD"
    ELSE IF any_in(JUNIOR_KW, t) THEN "JUNIOR"
    ELSE "MID"

infer_seniority(title) ==
    LET t == lower_text(title) IN
    IF any_in(INTERN_KW, t) THEN "INTERN"
    ELSE IF any_in(LEADERSHIP_KW, t) THEN "LEADERSHIP"
    ELSE IF any_in(STAFF_KW, t) THEN "STAFF"
    ELSE IF any_in(LEAD_KW, t) THEN "LEAD"
    ELSE IF any_in(SENIOR_KW, t) THEN "SENIOR"
    ELSE IF any_in(JUNIOR_KW, t) THEN "JUNIOR"
    ELSE "MID"

REMOTE_KEYWORDS ==
    {<<"remote">>, <<"worldwide">>, <<"anywhere">>, <<"distributed">>,
     <<"global">>, <<"fully", " ", "remote">>,
     <<"work", " ", "from", " ", "home">>, <<"wfh">>,
     <<"location", " ", "flexible">>}

(* Of the regional keyword sets, the members the locations can contain *)
UK_KEYWORDS == {<<"london">>, <<"manchester">>, <<"uk">>}
EU_COUNTRIES == {<<"germany">>, <<"france">>, <<"europe">>}
EU_CITIES == {<<"berlin">>, <<"paris">>}
US_STATES == {<<"texas">>, <<"california">>}
US_CITIES == {<<"austin">>, <<"boston">>, <<"usa">>}
APAC_KEYWORDS == {<<"sydney">>, <<"singapore">>, <<"apac">>}
LATAM_KEYWORDS == {<<"lima">>, <<"brazil">>, <<"latam">>}

(* None and "" are both the empty text here *)
infer_geo(location_raw) ==
    IF location_raw = << >> THEN "OTHER"
    ELSE LET loc == lower_text(location_raw) IN
         IF any_in(REMOTE_KEYWORDS, loc) THEN "REMOTE"
         ELSE IF any_in(UK_KEYWORDS, loc) THEN "UK"
         ELSE IF any_in(EU_COUNTRIES, loc) \/ any_in(EU_CITIES, loc) THEN "EU"
         ELSE IF any_in(US_STATES, loc) \/ any_in(US_CITIES, loc) THEN "US"
         ELSE IF any_in(APAC_KEYWORDS, loc) THEN "APAC"
         ELSE IF any_in(LATAM_KEYWORDS, loc) THEN "LATAM"
         ELSE "OTHER"

Texts(Fragments, n) == UNION { [1 .. k -> Fragments] : k \in 0 .. n }

NormalizerCalls ==
    { [fn |-> "infer_seniority", pc |-> "start", arg |-> t, ret |-> "none"] :
        t \in Texts(TitleFragments, MaxTitleLen) }
      \cup
    { [fn |-> "infer_geo", pc |-> "start", arg |-> l, ret |-> "none"] :
        l \in Texts(LocationFragments, MaxLocationLen) }

NormalizerInit == Seeded /\ call \in NormalizerCalls

InferSeniority ==
    /\ call.fn = "infer_seniority" /\ call.pc = "start"
    /\ call' = [call EXCEPT !.pc = "done", !.ret = infer_seniority(call.arg)]
    /\ UNCHANGED main_vars

InferGeo ==
    /\ call.fn = "infer_geo" /\ call.pc = "start"
    /\ call' = [call EXCEPT !.pc = "done", !.ret = infer_geo(call.arg)]
    /\ UNCHANGED main_vars

NormalizerNext ==
    \/ InferSeniority
    \/ InferGeo

NormalizerSpec == NormalizerInit /\ [][NormalizerNext]_vars

(* The bands in the order of the cascade, with their keywords *)
SeniorityBands ==
    << [band |-> "INTERN", keywords |-> INTERN_KW],
       [band |-> "LEADERSHIP", keywords |-> LEADERSHIP_KW],
       [band |-> "STAFF", keywords |-> STAFF_KW],
       [band |-> "LEAD", keywords |-> LEAD_KW],
       [band |-> "SENIOR", keywords |-> SENIOR_KW],
       [band |-> "JUNIOR", keywords |-> JUNIOR_KW] >>

(* C21: what is committed of a coroutine's upsert is all of it, never a    *)
(* part, and a coroutine fails on the database only when the database      *)
(* rejected a statement of its own.                                        *)
C21_NoInterference ==
    call.fn = "gather" =>
        /\ \A w \in call.committed :
              call.co[w.by].executed = call.co[w.by].rows
        /\ \A t \in Coroutines :
              call.co[t].ret = "ERROR" => t \in call.rejected

(* C22: when the classifier call on the first page raised or answered     *)
(* text that is not JSON, handling the result does not store the hash of   *)
(* that page as the company's page_hash.                                   *)
C22_FailedClassifierKeepsFingerprint ==
    [][\A c \in Companies :
          (Handles(c) /\ task[c].llm_failed) =>
              company'[c].page_hash # task[c].new_hash]_vars

(* C23: when the fetch of a page after the first ends the pagination,     *)
(* fetch_custom does not raise: it returns OK with the jobs accumulated so *)
(* far and the hash of the first page.                                     *)
C23_PaginationFailureReturnsOk ==
    [][\A c \in Companies :
          (task[c].pc = "fetch_next" /\ task'[c].pc = "handle") =>
              /\ task'[c].outcome = "returned"
              /\ task'[c].status = "OK"
              /\ task'[c].all_jobs = task[c].all_jobs
              /\ task'[c].new_hash = task[c].new_hash]_vars

(* C24: one invocation of fetch_custom fetches at most MAX_PAGES pages and *)
(* calls the classifier at most MAX_PAGES times.                           *)
C24_PageCap ==
    call.fn = "fetch_custom" =>
        call.fetches <= MAX_PAGES /\ call.llm_calls <= MAX_PAGES

(* The classifier named a page not seen yet after page MAX_PAGES and       *)
(* fetch_custom returned without fetching it.                              *)
C24_Witness ==
    /\ call.fn = "fetch_custom" /\ call.pc = "returned"
    /\ call.fetches = MAX_PAGES /\ call.llm_calls = MAX_PAGES
    /\ call.next_url # NULL /\ call.next_url \notin call.visited

(* The scrape_status the last scrape must have left, by its result *)
StatusAfter(o, before) ==
    IF o.outcome = "http_error" THEN "HTTP_ERROR"
    ELSE IF o.outcome = "returned" /\ o.status = "SPA_DETECTED" THEN "SPA_DETECTED"
    ELSE IF o.outcome = "returned" /\ o.status = "UNCHANGED" THEN before
    ELSE IF o.outcome = "returned" /\ upsert_count(o.jobs) > 0 THEN "OK"
    ELSE IF o.outcome = "returned" THEN "EMPTY"
    ELSE before

InsideGate(t) == t.pc \in {"fetch_first", "extract", "fetch_next", "handle", "sleep"}

(* C26: at most CONCURRENCY coroutines are between acquire and release of  *)
(* the semaphore, and a coroutine leaves that section only from the delay  *)
(* of its finally block, whatever its outcome was.                         *)
C26_GateAndDelay ==
    [][/\ Cardinality({ c \in Companies : InsideGate(task'[c]) }) <= CONCURRENCY
       /\ \A c \in Companies :
             (InsideGate(task[c]) /\ ~InsideGate(task'[c])) =>
                 /\ task[c].pc = "sleep"
                 /\ task[c].outcome \in {"returned", "http_error", "error"}
                 /\ permits' = permits - 1]_vars

(* A coroutine that failed with an exception other than an HTTP status     *)
(* error is in its delay and still holds the permit another one waits for. *)
C26_Witness ==
    \E c, d \in Companies :
        /\ task[c].pc = "sleep" /\ task[c].outcome = "error"
        /\ task[d].pc = "waiting"
        /\ locked(permits)

(* C27: under repeated invocations every enabled company that has a      *)
(* career URL is eventually handed to scrape_company.                      *)
C27_EveryCompanyEventuallyProcessed ==
    \A c \in Companies : <>(call.fn = "rolling" /\ c \in call.processed)

(* C28: a call to a generative-text service that was answered with 429   *)
(* has sent exactly one more request, after one backoff; a second 429 ends *)
(* the call in a failure; any other answer ends the call, so no call sends *)
(* more than two requests.                                                 *)
C28_RateLimitRetriedOnce ==
    (call.fn \in TextServiceFns /\ call.pc = "done" /\ call.requests > 0) =>
        /\ call.requests <= 2
        /\ call.responses[1].status = 429 => (call.requests = 2 /\ call.slept = 1)
        /\ call.responses[1].status # 429 => call.requests = 1
        /\ (call.requests = 2 /\ call.responses[2].status = 429) =>
               call.result \in {"error", "raised"}

(* C29: one fetch_proxycurl invocation sends no more requests than the   *)
(* cap leaves for today, and when it has ended, however it ended, the      *)
(* ledger has grown by the number of requests sent, so that the recorded   *)
(* total stays within DAILY_CAP.                                           *)
C29_RequestsCappedAndRecorded ==
    call.fn = "fetch_proxycurl" =>
        /\ call.sent <= DAILY_CAP - call.recorded
        /\ call.ledger <= DAILY_CAP
        /\ call.pc \in {"done", "closed"} =>
               call.ledger = call.recorded + call.sent

(* C30: infer_seniority returns the first band, in the order INTERN,     *)
(* LEADERSHIP, STAFF, LEAD, SENIOR, JUNIOR, one of whose keywords occurs   *)
(* in the title, and MID when there is none; infer_geo returns REMOTE      *)
(* whenever a remote keyword occurs in the location.                       *)
C30_ClassificationPriority ==
    /\ (call.fn = "infer_seniority" /\ call.pc = "done") =>
         LET hits == { i \in DOMAIN SeniorityBands :
                         any_in(SeniorityBands[i].keywords, lower_text(call.arg)) }
         IN  IF hits = {} THEN call.ret = "MID"
             ELSE \E i \in hits :
                    /\ \A j \in hits : i <= j
                    /\ call.ret = SeniorityBands[i].band
    /\ (call.fn = "infer_geo" /\ call.pc = "done"
          /\ any_in(REMOTE_KEYWORDS, lower_text(call.arg))) =>
         call.ret = "REMOTE"

(* 'Senior Staff Product Manager' has been classified as STAFF *)
C30_Witness ==
    /\ call.fn = "infer_seniority" /\ call.pc = "done"
    /\ call.arg = <<"Senior", " ", "Staff", " ", "Product Manager">>
    /\ call.ret = "STAFF"

====
